---- MODULE Spec2Model ----
(***************************************************************************)
(* Model of the gcc-oil-forecast inference path: the FastAPI handlers of   *)
(* api/main.py, the request schemas of api/schemas.py, Forecaster of       *)
(* src/models/forecast.py and the lag / rolling transforms of              *)
(* src/data/transforms.py.                                                 *)
(*                                                                         *)
(* Representation.                                                         *)
(*  - A date is a month number (month-start timestamps, one per month).    *)
(*  - A column name is a record [var, ops]: the base variable and the      *)
(*    suffixes appended by the transforms, so "brent_price_lag_1" is       *)
(*    [var |-> "brent_price", ops |-> <<[op |-> "lag", n |-> 1]>>].        *)
(*  - A frame is [columns, stored, rows]: its column labels, the columns   *)
(*    whose cells the rows hold (the cells of the other columns are        *)
(*    computed from them by the transforms), and its rows.  A row is       *)
(*    [idx, cells]: the pandas index label and the cells of the stored     *)
(*    columns, in their order.  Numbers are integers (fixed point); NaN    *)
(*    is the missing value.                                                *)
(***************************************************************************)
EXTENDS Integers, Sequences, FiniteSets, TLC

\* ------------------------------------------------------------------ bounds
\* Lengths (in rows) of the persisted feature matrices the model starts from.
ShortHist == 23
LongHist == 25
\* Longest dates list of a /predict request, longest values list of a
\* scenario entry or of a /whatif request.
MaxDates == 2

\* ------------------------------------------------------- program constants
\* The missing value of a numeric column (values themselves are >= 0).
NaN == -1
target_col == "saudi_production"
MODEL_REGISTRY_STAGE == "Production"
Lags == <<1, 2, 3, 6, 12>>
Windows == <<3, 6, 12>>
DefaultStats == <<"mean", "std">>
\* The exogenous base columns of the merged frame, in the order the merges
\* append them.
ExogenousCols == <<"brent_price">>

\* ------------------------------------------------------------ small helpers
Range(s) == {s[i] : i \in 1..Len(s)}

RECURSIVE SumSeq(_)
SumSeq(s) == IF s = <<>> THEN 0 ELSE s[1] + SumSeq(Tail(s))

RECURSIVE ISqrtFrom(_, _)
ISqrtFrom(n, r) == IF (r + 1) * (r + 1) > n THEN r ELSE ISqrtFrom(n, r + 1)
\* Square root rounded down to the fixed-point grid.
ISqrt(n) == ISqrtFrom(n, 0)

\* ------------------------------------------------------------ column names
Col(var) == [var |-> var, ops |-> <<>>]
DateCol == Col("date")
Derived(col, op, n) == [var |-> col.var, ops |-> Append(col.ops, [op |-> op, n |-> n])]
LagName(col, lag) == Derived(col, "lag", lag)
RollName(col, stat, window) == Derived(col, stat, window)
Parent(col) == [var |-> col.var, ops |-> SubSeq(col.ops, 1, Len(col.ops) - 1)]
LastOp(col) == col.ops[Len(col.ops)]
\* str.startswith(target_col) on the names the pipeline generates.
StartsWithTarget(col) == col.var = target_col

HasColumn(columns, c) == \E i \in 1..Len(columns) : columns[i] = c
\* df[name] = ...: an existing column keeps its place, a new one is appended.
SetColumn(columns, c) == IF HasColumn(columns, c) THEN columns ELSE Append(columns, c)

\* ------------------------------------------------------ transforms.py
\* A frame is [columns, stored, rows].  df.stored are the columns whose cells
\* the rows hold (row.cells is aligned with it); every other column of
\* df.columns was assigned by add_lag_features / add_rolling_features over
\* the rows as they stand, so its cell is the transform of its parent column:
\* a column is a stored column followed by the operations ops[1..k].
Strict(seq) == SubSeq(seq, 1, Len(seq))

RECURSIVE MinSeq(_)
MinSeq(s) == IF Len(s) = 1 THEN s[1]
             ELSE LET m == MinSeq(Tail(s)) IN IF s[1] < m THEN s[1] ELSE m
RECURSIVE MaxSeq(_)
MaxSeq(s) == IF Len(s) = 1 THEN s[1]
             ELSE LET m == MaxSeq(Tail(s)) IN IF s[1] > m THEN s[1] ELSE m
\* rolling(window).mean() / .std() / .min() / .max() over one full window w
\* without a missing value; std is the sample deviation (ddof = 1).
RollingMean(w) == SumSeq(w) \div Len(w)
RollingStd(w) ==
    LET s == SumSeq(w)
        sq == SumSeq([j \in 1..Len(w) |-> w[j] * w[j]])
    IN ISqrt((Len(w) * sq - s * s) \div (Len(w) * (Len(w) - 1)))
RollingStat(stat, w) ==
    CASE stat = "mean" -> RollingMean(w)
      [] stat = "std" -> RollingStd(w)
      [] stat = "min" -> MinSeq(w)
      [] stat = "max" -> MaxSeq(w)

\* First position of the parent column that the value at p reads:
\* Series.shift(lag) reads p - lag, Series.rolling(window) reads
\* p - window + 1 .. p.
\* (A shift that is one row short, and a window that ends on the row before
\* p.)
ShiftOneShort(lag, p) == p - lag + 1
WindowBeforeRow(window, p) == p - window
ShiftFrom(lag, p) == p - lag
WindowFrom(window, p) == p - window + 1

\* Whether the column (stored column si, then ops[1..k]) is missing at p:
\* shift gives NaN before the first lag rows and passes a NaN on; rolling
\* (min_periods = window) gives NaN while the window is incomplete or holds
\* a NaN, and the sample deviation of a single value is NaN.
RECURSIVE NaNAt(_, _, _, _, _)
NaNAt(rows, si, ops, k, p) ==
    IF k = 0 THEN rows[p].cells[si] = NaN
    ELSE IF ops[k].op = "lag"
    THEN ShiftFrom(ops[k].n, p) < 1 \/ NaNAt(rows, si, ops, k - 1, ShiftFrom(ops[k].n, p))
    ELSE \/ WindowFrom(ops[k].n, p) < 1
         \/ ops[k].op = "std" /\ ops[k].n < 2
         \/ \E j \in WindowFrom(ops[k].n, p)..p : NaNAt(rows, si, ops, k - 1, j)

\* The value of that column at p, where it is not missing.
RECURSIVE ValueAt(_, _, _, _, _)
ValueAt(rows, si, ops, k, p) ==
    IF k = 0 THEN rows[p].cells[si]
    ELSE IF ops[k].op = "lag"
    THEN ValueAt(rows, si, ops, k - 1, ShiftFrom(ops[k].n, p))
    ELSE RollingStat(ops[k].op,
                     Strict([j \in 1..ops[k].n |->
                               ValueAt(rows, si, ops, k - 1, WindowFrom(ops[k].n, p) + j - 1)]))

ColIndex(columns, c) == CHOOSE i \in 1..Len(columns) : columns[i] = c
RECURSIVE StoredAncestor(_, _)
StoredAncestor(stored, c) ==
    IF HasColumn(stored, c) THEN c ELSE StoredAncestor(stored, Parent(c))
CellIsNaN(df, c, p) ==
    LET a == StoredAncestor(df.stored, c)
        ops == SubSeq(c.ops, Len(a.ops) + 1, Len(c.ops))
    IN NaNAt(df.rows, ColIndex(df.stored, a), ops, Len(ops), p)
\* Cell of column c at position p (1-based) of frame df.
Cell(df, c, p) ==
    LET a == StoredAncestor(df.stored, c)
        ops == SubSeq(c.ops, Len(a.ops) + 1, Len(c.ops))
        si == ColIndex(df.stored, a)
    IN IF NaNAt(df.rows, si, ops, Len(ops), p) THEN NaN
       ELSE ValueAt(df.rows, si, ops, Len(ops), p)

RECURSIVE AddLagColumns(_, _, _)
AddLagColumns(columns, value_col, lags) ==
    IF lags = <<>> THEN columns
    ELSE AddLagColumns(SetColumn(columns, LagName(value_col, lags[1])), value_col, Tail(lags))
\* add_lag_features: the column list after the call.
add_lag_features(columns, value_col, lags) == AddLagColumns(columns, value_col, lags)

RECURSIVE AddStatColumns(_, _, _, _)
AddStatColumns(columns, value_col, window, stats) ==
    IF stats = <<>> THEN columns
    ELSE AddStatColumns(SetColumn(columns, RollName(value_col, stats[1], window)),
                        value_col, window, Tail(stats))
RECURSIVE AddRollingColumns(_, _, _, _)
AddRollingColumns(columns, value_col, windows, stats) ==
    IF windows = <<>> THEN columns
    ELSE AddRollingColumns(AddStatColumns(columns, value_col, windows[1], stats),
                           value_col, Tail(windows), stats)
\* add_rolling_features with stats = None: the column list after the call.
add_rolling_features(columns, value_col, windows) ==
    AddRollingColumns(columns, value_col, windows, DefaultStats)

RECURSIVE DeriveLoop(_, _)
\* for col in cols: add_lag_features(...); add_rolling_features(...)
\* (The test on `next` only makes the evaluation strict, one iteration at a
\* time.)
DeriveLoop(columns, cols) ==
    IF cols = <<>> THEN columns
    ELSE LET next == add_rolling_features(add_lag_features(columns, cols[1], Lags),
                                          cols[1], Windows)
         IN IF next = <<>> THEN next ELSE DeriveLoop(next, Tail(cols))

\* ------------------------------------------------- the persisted matrix
\* build_features.py 178-188: the base columns, then for the target and each
\* exogenous column its lag and rolling columns.
BaseColumns == <<DateCol, Col(target_col)>> \o [i \in 1..Len(ExogenousCols) |-> Col(ExogenousCols[i])]
BuilderLoopCols == <<Col(target_col)>> \o [i \in 1..Len(ExogenousCols) |-> Col(ExogenousCols[i])]
BuilderColumns == DeriveLoop(BaseColumns, BuilderLoopCols)

\* Base values of the merged monthly frame: the target and the aggregated
\* source are annual series forward filled to months, the price is monthly.
HistValue(var, month) ==
    CASE var = "date" -> month
      [] var = target_col -> 120 + 12 * ((month - 1) \div 12)
      [] var = "brent_price" -> 12 * (month % 5)
      [] OTHER -> 60 + 24 * ((month - 1) \div 12)

\* The merged frame of n months before dropna (build_features.py 169-185).
MergedFrame(n) ==
    [columns |-> BuilderColumns,
     stored |-> BaseColumns,
     rows |-> [m \in 1..n |->
                [idx |-> m - 1,
                 cells |-> [i \in 1..Len(BaseColumns) |-> HistValue(BaseColumns[i].var, m)]]]]

\* DataFrame.dropna(): a row is dropped when any of its cells is missing.
RowHasNaN(df, p) == \E i \in 1..Len(df.columns) : CellIsNaN(df, df.columns[i], p)

\* features.csv as build_features writes it for n merged months: the rows
\* without a missing value (dropna, 188), every column stored, no index.
FeaturesCsv(n) ==
    LET df == MergedFrame(n)
        keep == SelectSeq([p \in 1..n |-> p], LAMBDA p : ~RowHasNaN(df, p))
    IN [exists |-> TRUE,
        columns |-> df.columns,
        rows |-> [i \in 1..Len(keep) |->
                   [j \in 1..Len(df.columns) |-> Cell(df, df.columns[j], keep[i])]]]
NoFile == [exists |-> FALSE, columns |-> <<>>, rows |-> <<>>]


\* ------------------------------------------------------ the model registry
ModelTypes == <<"catboost", "elasticnet", "lightgbm">>
Horizons == <<1, 2, 3, 4, 5, 6>>
\* train.py 149: the columns the regressors are fitted on.
TrainedFeatureCols ==
    SelectSeq(BuilderColumns, LAMBDA c : c # DateCol /\ c # Col(target_col) /\ ~StartsWithTarget(c))

\* The registered models after one train_all_horizons run in which `best` won
\* every horizon (train.py 168-202): every type has version 1 from log_model,
\* the best type a version 2 in the configured stage.  list_registered_models
\* returns them by name.  `signed` tells whether the logged artifact carries
\* a signature (its input columns are then the columns it was fitted on).
RegisteredModel(h, mtype, best, signed) ==
    [horizon |-> h,
     mtype |-> mtype,
     latest_versions |->
        IF mtype = best
        THEN <<[version |-> 1, current_stage |-> "None"],
               [version |-> 2, current_stage |-> MODEL_REGISTRY_STAGE]>>
        ELSE <<[version |-> 1, current_stage |-> "None"]>>,
     signature |-> [known |-> signed, inputs |-> IF signed THEN TrainedFeatureCols ELSE <<>>]]
TrainedRegistry(best, signed) ==
    [i \in 1..(Len(Horizons) * Len(ModelTypes)) |->
        RegisteredModel(Horizons[((i - 1) \div Len(ModelTypes)) + 1],
                        ModelTypes[((i - 1) % Len(ModelTypes)) + 1], best, signed)]
EmptyRegistry == <<>>

\* ------------------------------------------------------------ forecast.py
\* Forecaster._load_model (38-67): the first registered model of the horizon
\* with a latest version in the configured stage, or RuntimeError.
\* A registered name is gcc_oil_forecast_h{horizon}_{model_type} (train.py
\* 133, 193); the part after "gcc_oil_forecast_h" is modelled as the decimal
\* digits of the horizon, "_" and the model type.
DigitChars == <<"0", "1", "2", "3", "4", "5", "6", "7", "8", "9">>
RECURSIVE Digits(_)
Digits(n) == IF n < 10 THEN <<DigitChars[n + 1]>>
             ELSE Append(Digits(n \div 10), DigitChars[(n % 10) + 1])
RegisteredName(h, mtype) == Digits(h) \o <<"_", mtype>>
\* str.startswith
StartsWith(name, prefix) ==
    Len(prefix) <= Len(name) /\ SubSeq(name, 1, Len(prefix)) = prefix
\* The test of line 47 with a prefix that lacks the closing "_":
NamePrefixMatchesWithoutSeparator(rm, horizon) ==
    StartsWith(RegisteredName(rm.horizon, rm.mtype), Digits(horizon))
\* Lines 43 and 47: name.startswith(f"gcc_oil_forecast_h{horizon}_").
NamePrefixMatches(rm, horizon) ==
    StartsWith(RegisteredName(rm.horizon, rm.mtype), Digits(horizon) \o <<"_">>)
HasStageVersion(rm) ==
    \E j \in 1..Len(rm.latest_versions) : rm.latest_versions[j].current_stage = MODEL_REGISTRY_STAGE
StageVersion(rm) ==
    rm.latest_versions[CHOOSE j \in 1..Len(rm.latest_versions) :
        /\ rm.latest_versions[j].current_stage = MODEL_REGISTRY_STAGE
        /\ \A k \in 1..(j - 1) : rm.latest_versions[k].current_stage # MODEL_REGISTRY_STAGE]
Candidates(reg, horizon) ==
    SelectSeq(reg, LAMBDA rm : NamePrefixMatches(rm, horizon) /\ HasStageVersion(rm))
load_model(reg, horizon) ==
    LET found == Candidates(reg, horizon)
    IN IF found = <<>>
       THEN [exc |-> "RuntimeError: No model found", horizon |-> horizon,
             model |-> [horizon |-> 0, mtype |-> "", version |-> 0],
             feature_columns |-> [known |-> FALSE, cols |-> <<>>]]
       ELSE [exc |-> "", horizon |-> horizon,
             model |-> [horizon |-> found[1].horizon, mtype |-> found[1].mtype,
                        version |-> StageVersion(found[1]).version],
             feature_columns |-> [known |-> found[1].signature.known,
                                  cols |-> found[1].signature.inputs]]

\* DataFrame.sort_values("date") with the default kind="quicksort", which is
\* not stable: every ordering of the positions by ascending date, rows of
\* equal date in any order.
RECURSIVE Perms(_)
Perms(S) == IF S = {} THEN {<<>>}
            ELSE UNION {{<<e>> \o t : t \in Perms(S \ {e})} : e \in S}
RECURSIVE OrdersFrom(_, _, _)
OrdersFrom(dates, d, dmax) ==
    IF d > dmax THEN {<<>>}
    ELSE LET G == {p \in 1..Len(dates) : dates[p] = d}
             rest == OrdersFrom(dates, d + 1, dmax)
         IN IF G = {} THEN rest ELSE {g \o r : g \in Perms(G), r \in rest}
SortOrders(dates) ==
    IF dates = <<>> THEN {<<>>}
    ELSE OrdersFrom(dates, MinSeq(dates), MaxSeq(dates))

DateOf(df, p) == df.rows[p].cells[ColIndex(df.stored, DateCol)]
DatesOf(df) == [p \in 1..Len(df.rows) |-> DateOf(df, p)]
Reorder(df, order) == [df EXCEPT !.rows = Strict([i \in 1..Len(order) |-> df.rows[order[i]]])]

\* pd.read_csv(features.csv, parse_dates=["date"]): a fresh frame with a
\* RangeIndex.
read_csv(file) ==
    [columns |-> file.columns,
     stored |-> file.columns,
     rows |-> Strict([i \in 1..Len(file.rows) |-> [idx |-> i - 1, cells |-> file.rows[i]]])]

\* forecast.py 84-91: the row synthesized for dates[i] (i is 1-based): a copy
\* of last_row with the date set and then `row[var] = values[i]` for every
\* scenario entry whose guard holds.  `added` are the labels such an
\* assignment appends to the row (a label the row lacks enlarges a Series).
\* The guard of line 89 without `var in row.index`:
ScenarioAppliesAlways(scenario, columns, c, i) ==
    /\ c \in DOMAIN scenario
    /\ i <= Len(scenario[c])
\* The guard of line 89 with the position compared one off:
ScenarioAppliesShifted(scenario, columns, c, i) ==
    /\ c \in DOMAIN scenario
    /\ i < Len(scenario[c])
    /\ HasColumn(columns, c)
\* The guard of line 89, `idx < len(values) and var in row.index` (idx = i - 1):
ScenarioApplies(scenario, columns, c, i) ==
    /\ c \in DOMAIN scenario
    /\ i <= Len(scenario[c])
    /\ HasColumn(columns, c)
SynthRow(columns, last_row, date, scenario, i) ==
    LET assigned == {c \in DOMAIN scenario : ScenarioApplies(scenario, columns, c, i)}
    IN [idx |-> last_row.idx,
        cells |-> Strict([j \in 1..Len(columns) |->
                    IF columns[j] \in assigned THEN scenario[columns[j]][i]
                    ELSE IF columns[j] = DateCol THEN date
                    ELSE last_row.cells[j]]),
        added |-> assigned \ Range(columns)]

\* forecast.py 98-101: the columns of `combined` after the recompute loop over
\* the target and every other non-date column of base_df.
LoopCols(base_columns) ==
    <<Col(target_col)>> \o SelectSeq(base_columns, LAMBDA c : c # DateCol /\ c # Col(target_col))
RecomputeColumns(base_columns) == DeriveLoop(base_columns, LoopCols(base_columns))
\* The recompute of the builder's column list, evaluated once.
RecomputedBuilderColumns == RecomputeColumns(BuilderColumns)
CombinedColumns(base_columns) ==
    IF base_columns = BuilderColumns THEN RecomputedBuilderColumns
    ELSE RecomputeColumns(base_columns)

\* A column the loop assigns: its cells in `combined` are the recomputed ones.
\* (Every such column is derived from a column that is assigned earlier in
\* the loop or never, since the base columns precede the derived ones.)
AssignedByLoop(base_columns, c) ==
    /\ c.ops # <<>>
    /\ HasColumn(LoopCols(base_columns), Parent(c))
    /\ LastOp(c).op \in {"lag"} \cup Range(DefaultStats)
    /\ LastOp(c).n \in (IF LastOp(c).op = "lag" THEN Range(Lags) ELSE Range(Windows))

\* pd.concat([base_df, df_pred], ignore_index=True) (94), keeping of each row
\* the cells the loop does not overwrite.
Concat(base_df, df_pred) ==
    LET keepIdx == SelectSeq([j \in 1..Len(base_df.columns) |-> j],
                             LAMBDA j : ~AssignedByLoop(base_df.columns, base_df.columns[j]))
        all == base_df.rows \o df_pred
    IN [columns |-> CombinedColumns(base_df.columns),
        stored |-> [k \in 1..Len(keepIdx) |-> base_df.columns[keepIdx[k]]],
        rows |-> Strict([i \in 1..Len(all) |->
                   [idx |-> i - 1,
                    cells |-> Strict([k \in 1..Len(keepIdx) |-> all[i].cells[keepIdx[k]]])]])]

\* combined.dropna() then combined[combined["date"].isin(dates)] (103-105):
\* the positions of `combined` that survive both, in frame order.
SelectPredRows(combined, dates) ==
    SelectSeq([p \in 1..Len(combined.rows) |-> p],
              LAMBDA p : DateOf(combined, p) \in Range(dates) /\ ~RowHasNaN(combined, p))

\* forecast.py 107-112: the columns of X.
DropCols(columns) ==
    {DateCol, Col(target_col)} \cup {c \in Range(columns) : StartsWithTarget(c)}
\* Lines 107-112 with a fallback that drops the date and the target alone:
ProjectionKeepingTargetFeatures(feature_columns, columns) ==
    IF feature_columns.known
    THEN [exc |-> IF \A i \in 1..Len(feature_columns.cols) : HasColumn(columns, feature_columns.cols[i])
                  THEN "" ELSE "KeyError: not in index",
          cols |-> feature_columns.cols]
    ELSE [exc |-> "", cols |-> SelectSeq(columns, LAMBDA c : c \notin {DateCol, Col(target_col)})]
Projection(feature_columns, columns) ==
    IF feature_columns.known
    THEN [exc |-> IF \A i \in 1..Len(feature_columns.cols) : HasColumn(columns, feature_columns.cols[i])
                  THEN "" ELSE "KeyError: not in index",
          cols |-> feature_columns.cols]
    ELSE LET drop_cols == DropCols(columns)
         IN [exc |-> "", cols |-> SelectSeq(columns, LAMBDA c : c \notin drop_cols)]

\* The regressor is opaque: one output per row of X, a function of the cells
\* of the columns it was fitted on (it raises when X lacks one of them).
\* Given an X without rows, it returns no output or raises, depending on the
\* library behind the pyfunc wrapper.
ModelAccepts(X_cols) ==
    \A i \in 1..Len(TrainedFeatureCols) : HasColumn(X_cols, TrainedFeatureCols[i])
Regress(combined, p) ==
    SumSeq([i \in 1..Len(TrainedFeatureCols) |-> i * Cell(combined, TrainedFeatureCols[i], p)])
model_predict(combined, pred_df) ==
    Strict([i \in 1..Len(pred_df) |-> Regress(combined, pred_df[i])])

NoFrame == [columns |-> <<>>, stored |-> <<>>, rows |-> <<>>]
\* What one Forecaster.predict call did: the exception it raised ("" for
\* none), whether it read the matrix and invoked the model, and its locals.
CallRecord(exc, read, invoked, dates, scenario, df_pred, combined, pred_df, X_cols, preds) ==
    [exc |-> exc, read |-> read, invoked |-> invoked, dates |-> dates, scenario |-> scenario,
     df_pred |-> df_pred, combined |-> combined, pred_df |-> pred_df, X_cols |-> X_cols,
     preds |-> preds]
Raised(exc, read, dates, scenario) ==
    CallRecord(exc, read, FALSE, dates, scenario, <<>>, NoFrame, <<>>, <<>>, <<>>)

\* pd.to_datetime of the request's date strings (131).  A date string is
\* [ok, month], ok telling whether it parses.
ParsedDates(dates) == [i \in 1..Len(dates) |-> dates[i].month]

\* Forecaster._prepare_inputs from line 94 on, followed by model.predict
\* (133), for one outcome `order` of the sort of the concatenated frame.
PrepareAndPredict(fc, dates, scenario, df_pred, cat, order) ==
    LET combined == Reorder(cat, order)
        pred_df == SelectPredRows(combined, ParsedDates(dates))
        X == Projection(fc.feature_columns, combined.columns)
    IN IF X.exc # ""
       THEN {CallRecord(X.exc, TRUE, FALSE, dates, scenario, df_pred, combined, pred_df, <<>>, <<>>)}
       ELSE IF ~ModelAccepts(X.cols)
       THEN {CallRecord("ValueError: feature names mismatch", TRUE, TRUE, dates, scenario,
                        df_pred, combined, pred_df, X.cols, <<>>)}
       ELSE {CallRecord("", TRUE, TRUE, dates, scenario, df_pred, combined, pred_df, X.cols,
                        model_predict(combined, pred_df))}
            \cup (IF pred_df # <<>> THEN {}
                  ELSE {CallRecord("ValueError: Found array with 0 sample(s)", TRUE, TRUE, dates,
                                   scenario, df_pred, combined, pred_df, X.cols, <<>>)})

\* Forecaster._prepare_inputs lines 80-94 for one outcome `o1` of the sort of
\* base_df, then the rest for every outcome of the second sort (of the one in
\* `only`, when `only` is not empty).
PrepareInputs(fc, raw, dates, scenario, o1, only) ==
    LET base_df == Reorder(raw, o1)
        last_row == base_df.rows[Len(base_df.rows)]
        df_pred == Strict([i \in 1..Len(dates) |->
                             SynthRow(base_df.columns, last_row, ParsedDates(dates)[i], scenario, i)])
        cat == Concat(base_df, df_pred)
    IN UNION {PrepareAndPredict(fc, dates, scenario, df_pred, cat, o2)
                : o2 \in {o \in SortOrders(DatesOf(cat)) : only = <<>> \/ o = only[1]}}

\* The file a frame saved to the features path would leave, and the features
\* file after a call that saved its combined frame.
to_csv(df) ==
    [exists |-> TRUE, columns |-> df.stored,
     rows |-> [i \in 1..Len(df.rows) |-> df.rows[i].cells]]
FeaturesAfterSaved(file, call) ==
    IF call.read /\ call.combined.rows # <<>> THEN to_csv(call.combined) ELSE file
\* The features file after a Forecaster.predict call: _prepare_inputs reads it
\* into a fresh frame (80) and writes nothing back.
FeaturesAfter(file, call) == file

\* Forecaster.predict (115-134): every outcome of one call; with `only` not
\* empty, those in which the sort of the concatenated frame (95) comes out as
\* only[1].
ForecasterPredictWhere(fc, file, dates, scenario, only) ==
    IF \E i \in 1..Len(dates) : ~dates[i].ok
    THEN {Raised("ValueError: unparseable date", FALSE, dates, scenario)}
    ELSE IF ~file.exists
    THEN {Raised("FileNotFoundError: features.csv", FALSE, dates, scenario)}
    ELSE IF file.rows = <<>>
    THEN {Raised("IndexError: single positional indexer is out-of-bounds", TRUE, dates, scenario)}
    ELSE LET raw == read_csv(file)
         IN UNION {PrepareInputs(fc, raw, dates, scenario, o1, only)
                     : o1 \in SortOrders(DatesOf(raw))}

\* Forecaster.predict (115-134): every outcome of one call.
ForecasterPredict(fc, file, dates, scenario) ==
    ForecasterPredictWhere(fc, file, dates, scenario, <<>>)

\* ---------------------------------------------------------------- inputs
\* The persisted matrices: none (the builder never ran), the matrix of a
\* single year of merged data (every row dropped), a short one, a long one
\* and the long one a month later.
EmptyMatrix == FeaturesCsv(MaxSeq(Lags))
ShortMatrix == FeaturesCsv(MaxSeq(Lags) + ShortHist)
LongMatrix == FeaturesCsv(MaxSeq(Lags) + LongHist)
LaterMatrix == FeaturesCsv(MaxSeq(Lags) + LongHist + 1)
UnsignedRegistry == TrainedRegistry("elasticnet", FALSE)
SignedRegistry == TrainedRegistry("elasticnet", TRUE)
\* The deployments the service starts in: [registry, features_file].
Deployments ==
    {<<EmptyRegistry, LongMatrix>>, <<UnsignedRegistry, NoFile>>,
     <<UnsignedRegistry, EmptyMatrix>>, <<UnsignedRegistry, ShortMatrix>>,
     <<UnsignedRegistry, LongMatrix>>, <<UnsignedRegistry, LaterMatrix>>,
     <<SignedRegistry, LongMatrix>>}

\* Date strings of requests: the two months after the last month of the long
\* matrix (the first is the last month of the later matrix), and a string
\* that does not parse.
LastMonth == MaxSeq(Lags) + LongHist
DateStr(m) == [ok |-> TRUE, month |-> m]
BadDateStr == [ok |-> FALSE, month |-> 0]
DateStrings == {DateStr(LastMonth + 1), DateStr(LastMonth + 2), BadDateStr}
SeqsUpTo(S, n) == UNION {[1..k -> S] : k \in 0..n}

\* Scenario mappings: keys are column names; "unknown_var" is no column.
NoScenario == [none |-> TRUE, map |-> <<>>]
SomeScenario(m) == [none |-> FALSE, map |-> m]
UnknownCol == Col("unknown_var")
ScenarioKeySets ==
    {{Col("brent_price")}, {Col(target_col)}, {UnknownCol}, {Col("brent_price"), UnknownCol}}
ScenarioValues == {60}
Scenarios ==
    {NoScenario} \cup
    {SomeScenario([c \in K |-> l]) : K \in ScenarioKeySets, l \in SeqsUpTo(ScenarioValues, MaxDates)}
WhatIfVariables == {Col("brent_price"), UnknownCol}
WhatIfValues == {36, 60}

PredictRequests ==
    {[kind |-> "predict", dates |-> d, scenario |-> sc]
        : d \in SeqsUpTo(DateStrings, MaxDates), sc \in Scenarios}
WhatIfRequests ==
    {[kind |-> "whatif", date |-> d, variable |-> v, values |-> l]
        : d \in DateStrings, v \in WhatIfVariables, l \in SeqsUpTo(WhatIfValues, MaxDates)}
HealthRequest == [kind |-> "health"]
NoRequest == [kind |-> "none"]

\* ------------------------------------------------------------ api/schemas.py
\* PredictRequest: dates is a list of at least one string.
ValidPredictRequest(req) == Len(req.dates) >= 1
\* WhatIfRequest: values is a list of at least one float.
ValidWhatIfRequest(req) == Len(req.values) >= 1

\* --------------------------------------------------------------- api/main.py
\* A response: the HTTP status, the detail of an error response, and the
\* body of a 200; `built` tells whether the handler constructed a Forecaster
\* (loaded a model).
Response(status, detail, baseline, predictions, built) ==
    [status |-> status, detail |-> detail, baseline |-> baseline,
     predictions |-> predictions, built |-> built]
NoResponse == Response(0, "", <<>>, <<>>, FALSE)
\* FastAPI's answer to a body that fails the schema.
ValidationError == Response(422, "validation error", <<>>, <<>>, FALSE)
\* The status model_info answers with when it fails (78-80).
NotFoundStatus == 404
\* The status of `raise HTTPException(status_code=500, detail=str(exc))` in
\* the `except Exception` clause of predict and what_if.
InternalErrorStatus == 500
InternalError(exc, built) == Response(InternalErrorStatus, exc, <<>>, <<>>, built)
Outcome(resp, cs) == [response |-> resp, calls |-> cs]

\* What Forecaster.predict receives for the request's scenario (129-130).
ScenarioArg(scenario) == IF scenario.none THEN <<>> ELSE scenario.map

\* predict (47-64), for a request that passed the schema: every outcome.
predict(reg, file, req) ==
    IF req.dates = <<>>
    THEN {Outcome(InternalError("400: At least one date must be provided.", FALSE), <<>>)}
    ELSE IF ~req.dates[1].ok
    THEN {Outcome(InternalError("ValueError: Invalid isoformat string", FALSE), <<>>)}
    ELSE LET forecaster == load_model(reg, 1)
         IN IF forecaster.exc # ""
            THEN {Outcome(InternalError(forecaster.exc, FALSE), <<>>)}
            ELSE {IF call.exc # ""
                  THEN Outcome(InternalError(call.exc, TRUE), <<call>>)
                  ELSE Outcome(Response(200, "", <<>>, call.preds, TRUE), <<call>>)
                    : call \in ForecasterPredict(forecaster, file, req.dates,
                                                 ScenarioArg(req.scenario))}

\* what_if (83-110), for a request that passed the schema: every outcome.
Repeat(e, n) == [i \in 1..n |-> e]
what_if(reg, file, req) ==
    LET forecaster == load_model(reg, 1)
    IN IF forecaster.exc # ""
       THEN {Outcome(InternalError(forecaster.exc, FALSE), <<>>)}
       ELSE LET baselines == ForecasterPredict(forecaster, file, <<req.date>>, <<>>)
                scenario == [c \in {req.variable} |-> req.values]
                scenarios == ForecasterPredict(forecaster, file,
                                               Repeat(req.date, Len(req.values)), scenario)
            IN UNION {
                 IF b.exc # ""
                 THEN {Outcome(InternalError(b.exc, TRUE), <<b>>)}
                 ELSE IF b.preds = <<>>
                 THEN {Outcome(InternalError("IndexError: list index out of range", TRUE), <<b>>)}
                 ELSE {IF c.exc # ""
                       THEN Outcome(InternalError(c.exc, TRUE), <<b, c>>)
                       ELSE Outcome(Response(200, "", <<b.preds[1]>>, c.preds, TRUE), <<b, c>>)
                         : c \in scenarios}
                 : b \in baselines}

\* ------------------------------------------------- idle values of the state
\* The worker threads that run the handlers (FastAPI runs a `def` endpoint in
\* a thread pool), and a thread that runs no handler.
Threads == {1, 2}
IdleThread ==
    [pc |-> "idle", req |-> NoRequest, seen |-> NoFile, fc |-> <<>>, raw |-> NoFrame,
     response |-> NoResponse]
NoThreads == [t \in Threads |-> IdleThread]
\* No Forecaster constructed, no library function called.
NoForecaster == [called |-> FALSE]
NoReturn == [fn |-> "none"]
\* An empty data/raw directory: no source file is present.
NoRawDir == [present |-> FALSE]

\* ---------------------------------------------------------------- the system
VARIABLES
    registry,       \* the MLflow model registry
    features_file,  \* data/processed/features.csv
    inflight,       \* the request the service has received and not yet answered
    request,        \* the /predict or /whatif request of the current exchange
    response,       \* the answer to `request` (NoResponse until it is answered)
    calls,          \* the Forecaster.predict calls made for `request`
    health,         \* the status of the last GET /health answered since `request`
    threads,        \* the worker threads of the server, each running one handler
    forecaster,     \* the outcome of the last Forecaster(horizon) construction
    table,          \* the DataFrame object a caller of transforms.py holds
    returned,       \* what the last call of a library function returned
    raw_dir         \* data/raw: the source files build_features reads
vars == <<registry, features_file, inflight, request, response, calls, health,
          threads, forecaster, table, returned, raw_dir>>
\* The state of the service's exchange with one client, of its worker threads,
\* and of a direct caller of the library functions.
library_vars == <<forecaster, table, returned, raw_dir>>

Init ==
    /\ \E d \in Deployments : registry = d[1] /\ features_file = d[2]
    /\ inflight = NoRequest
    /\ request = NoRequest
    /\ response = NoResponse
    /\ calls = <<>>
    /\ health = 0
    /\ threads = NoThreads
    /\ forecaster = NoForecaster
    /\ table = NoFrame
    /\ returned = NoReturn
    /\ raw_dir = NoRawDir

\* A client posts a /predict or /whatif request.
Receive(req) ==
    /\ inflight = NoRequest
    /\ request = NoRequest
    /\ inflight' = req
    /\ request' = req
    /\ response' = NoResponse
    /\ calls' = <<>>
    /\ health' = 0
    /\ UNCHANGED <<registry, features_file, threads, library_vars>>
PostPredict == \E req \in PredictRequests : Receive(req)
PostWhatIf == \E req \in WhatIfRequests : Receive(req)

\* A client sends GET /health.
GetHealth ==
    /\ inflight = NoRequest
    /\ inflight' = HealthRequest
    /\ health' = 0
    /\ UNCHANGED <<registry, features_file, request, response, calls, threads, library_vars>>

RECURSIVE FeaturesAfterCalls(_, _)
FeaturesAfterCalls(file, cs) ==
    IF cs = <<>> THEN file ELSE FeaturesAfterCalls(FeaturesAfter(file, Head(cs)), Tail(cs))
Answer(out) ==
    /\ response' = out.response
    /\ calls' = out.calls
    /\ features_file' = FeaturesAfterCalls(features_file, out.calls)
    /\ inflight' = NoRequest
    /\ UNCHANGED <<registry, request, health, threads, library_vars>>

\* POST /predict: schema validation, then the handler.
HandlePredict ==
    /\ inflight.kind = "predict"
    /\ IF ~ValidPredictRequest(inflight)
       THEN Answer(Outcome(ValidationError, <<>>))
       ELSE \E out \in predict(registry, features_file, inflight) : Answer(out)

\* POST /whatif: schema validation, then the handler.
HandleWhatIf ==
    /\ inflight.kind = "whatif"
    /\ IF ~ValidWhatIfRequest(inflight)
       THEN Answer(Outcome(ValidationError, <<>>))
       ELSE \E out \in what_if(registry, features_file, inflight) : Answer(out)

\* The client has read the answer: the exchange is over.
Deliver ==
    /\ inflight = NoRequest
    /\ request # NoRequest
    /\ request' = NoRequest
    /\ response' = NoResponse
    /\ calls' = <<>>
    /\ health' = 0
    /\ UNCHANGED <<registry, features_file, inflight, threads, library_vars>>

\* GET /health (41-44).
HandleHealth ==
    /\ inflight.kind = "health"
    /\ health' = 200
    /\ inflight' = NoRequest
    /\ UNCHANGED <<registry, features_file, request, response, calls, threads, library_vars>>

Next ==
    \/ PostPredict \/ PostWhatIf \/ GetHealth
    \/ HandlePredict \/ HandleWhatIf \/ HandleHealth
    \/ Deliver

Spec == Init /\ [][Next]_vars

\* The server answers a health check it has received.
FairSpec == Spec /\ WF_vars(HandleHealth)

\* ------------------------------------------- concurrent /predict requests
\* FastAPI runs the `def` endpoint predict in a thread pool, so two requests
\* are handled at once, a handler's reads of the registry and of the features
\* file interleaving with the other handler's steps.
exchange_vars == <<inflight, request, response, calls, health>>

\* Forecaster.predict from the frame read at line 80 on: every outcome.
PredictFromFrame(fc, raw, dates, scenario) ==
    IF raw.rows = <<>>
    THEN {Raised("IndexError: single positional indexer is out-of-bounds", TRUE, dates, scenario)}
    ELSE UNION {PrepareInputs(fc, raw, dates, scenario, o1, <<>>)
                  : o1 \in SortOrders(DatesOf(raw))}

\* The requests two clients send at once, and the deployments they meet.
ConcDateLists ==
    {<<>>, <<DateStr(LastMonth + 1)>>, <<DateStr(LastMonth + 2), DateStr(LastMonth + 1)>>,
     <<DateStr(LastMonth + 1), DateStr(LastMonth + 1)>>}
ConcScenarios == {NoScenario, SomeScenario([c \in {Col("brent_price")} |-> <<60>>])}
ConcRequests ==
    {[kind |-> "predict", dates |-> d, scenario |-> sc] : d \in ConcDateLists, sc \in ConcScenarios}
ConcDeployments == {<<UnsignedRegistry, LongMatrix>>, <<UnsignedRegistry, LaterMatrix>>}

ConcInit ==
    /\ \E d \in ConcDeployments : registry = d[1] /\ features_file = d[2]
    /\ inflight = NoRequest
    /\ request = NoRequest
    /\ response = NoResponse
    /\ calls = <<>>
    /\ health = 0
    /\ threads = NoThreads
    /\ forecaster = NoForecaster
    /\ table = NoFrame
    /\ returned = NoReturn
    /\ raw_dir = NoRawDir

SetThread(t, th) == threads' = [threads EXCEPT ![t] = th]
Finish(th, resp) == [th EXCEPT !.pc = "done", !.response = resp]

\* Thread t takes a request: the schema, then main.py 52-58, which touch no
\* shared state.  `seen` is the features file as it is when the request
\* arrives.
ThreadReceive(t, req) ==
    /\ threads[t].pc = "idle"
    /\ LET th == [IdleThread EXCEPT !.req = req, !.seen = features_file]
       IN IF ~ValidPredictRequest(req) THEN SetThread(t, Finish(th, ValidationError))
          ELSE IF ~req.dates[1].ok
          THEN SetThread(t, Finish(th, InternalError("ValueError: Invalid isoformat string", FALSE)))
          ELSE SetThread(t, [th EXCEPT !.pc = "validated"])
    /\ UNCHANGED <<registry, features_file, exchange_vars, library_vars>>

\* main.py 59: Forecaster(horizon) reads the registry.
ThreadLoadModel(t) ==
    /\ threads[t].pc = "validated"
    /\ LET fc == load_model(registry, 1)
       IN IF fc.exc # "" THEN SetThread(t, Finish(threads[t], InternalError(fc.exc, FALSE)))
          ELSE SetThread(t, [threads[t] EXCEPT !.pc = "loaded", !.fc = fc])
    /\ UNCHANGED <<registry, features_file, exchange_vars, library_vars>>

\* forecast.py 129-131 and 80: the dates are parsed and the features file is
\* read into a frame of the thread's own.
ThreadReadCsv(t) ==
    /\ threads[t].pc = "loaded"
    /\ IF \E i \in 1..Len(threads[t].req.dates) : ~threads[t].req.dates[i].ok
       THEN SetThread(t, Finish(threads[t], InternalError("ValueError: unparseable date", TRUE)))
       ELSE IF ~features_file.exists
       THEN SetThread(t, Finish(threads[t], InternalError("FileNotFoundError: features.csv", TRUE)))
       ELSE SetThread(t, [threads[t] EXCEPT !.pc = "read", !.raw = read_csv(features_file)])
    /\ UNCHANGED <<registry, features_file, exchange_vars, library_vars>>

\* forecast.py 81-113 and 133-134, main.py 60-64: the thread works on its own
\* frame and answers.
ThreadPredict(t) ==
    /\ threads[t].pc = "read"
    /\ \E call \in PredictFromFrame(threads[t].fc, threads[t].raw, threads[t].req.dates,
                                    ScenarioArg(threads[t].req.scenario)) :
          /\ SetThread(t, Finish(threads[t],
                                 IF call.exc # "" THEN InternalError(call.exc, TRUE)
                                 ELSE Response(200, "", <<>>, call.preds, TRUE)))
          /\ features_file' = FeaturesAfter(features_file, call)
    /\ UNCHANGED <<registry, exchange_vars, library_vars>>

\* The response of thread t is sent; the thread is free again.
ThreadRespond(t) ==
    /\ threads[t].pc = "done"
    /\ SetThread(t, IdleThread)
    /\ UNCHANGED <<registry, features_file, exchange_vars, library_vars>>

ConcReceive == \E t \in Threads, req \in ConcRequests : ThreadReceive(t, req)
ConcLoadModel == \E t \in Threads : ThreadLoadModel(t)
ConcReadCsv == \E t \in Threads : ThreadReadCsv(t)
ConcPredict == \E t \in Threads : ThreadPredict(t)
ConcRespond == \E t \in Threads : ThreadRespond(t)
ConcNext == ConcReceive \/ ConcLoadModel \/ ConcReadCsv \/ ConcPredict \/ ConcRespond
ConcSpec == ConcInit /\ [][ConcNext]_vars

\* ------------------------------------------------- constructing a Forecaster
\* The registries a Forecaster is constructed against: up to MaxModels
\* registered models with distinct names, in the order list_registered_models
\* returns them.  latest_versions holds the latest version of each stage.
MaxModels == 2
RegHorizons == {1, 2, 12}
RegModelTypes == {"elasticnet", "lightgbm"}
RegVersions ==
    {<<[version |-> 1, current_stage |-> "None"]>>,
     <<[version |-> 1, current_stage |-> "Staging"]>>,
     <<[version |-> 2, current_stage |-> "None"],
       [version |-> 1, current_stage |-> MODEL_REGISTRY_STAGE]>>}
RegModels ==
    {[horizon |-> h, mtype |-> t, latest_versions |-> v,
      signature |-> [known |-> FALSE, inputs |-> <<>>]]
        : h \in RegHorizons, t \in RegModelTypes, v \in RegVersions}
Registries ==
    {reg \in SeqsUpTo(RegModels, MaxModels) :
        \A i, j \in 1..Len(reg) :
            i # j => RegisteredName(reg[i].horizon, reg[i].mtype)
                        # RegisteredName(reg[j].horizon, reg[j].mtype)}

\* Forecaster.__init__ (32-36): the object is returned unless _load_model
\* raises.
Forecaster(reg, horizon) ==
    LET fc == load_model(reg, horizon)
    IN [called |-> TRUE, horizon |-> horizon, exc |-> fc.exc, returned |-> fc.exc = "",
        model |-> fc.model, feature_columns |-> fc.feature_columns]

RegistryInit ==
    /\ registry \in Registries
    /\ features_file = NoFile
    /\ inflight = NoRequest
    /\ request = NoRequest
    /\ response = NoResponse
    /\ calls = <<>>
    /\ health = 0
    /\ threads = NoThreads
    /\ forecaster = NoForecaster
    /\ table = NoFrame
    /\ returned = NoReturn
    /\ raw_dir = NoRawDir

Construct(horizon) ==
    /\ forecaster' = Forecaster(registry, horizon)
    /\ UNCHANGED <<registry, features_file, exchange_vars, threads, table, returned, raw_dir>>
ConstructForecaster == \E horizon \in RegHorizons : Construct(horizon)
RegistrySpec == RegistryInit /\ [][ConstructForecaster]_vars

\* ------------------------------------------- calling transforms.py directly
\* A caller holds a DataFrame (`table`) and passes it to add_lag_features or
\* add_rolling_features.  Both assign the new columns to the frame they are
\* given (58, 84-90) and return that same object (59, 93), so after a call
\* `table` is the frame as the function left it.

\* add_lag_features (44-59): [exc, frame], frame being the object passed in
\* as the call leaves it.  df[value_col] raises KeyError for a missing column.
AddLagFeatures(df, value_col, lags) ==
    IF lags # <<>> /\ ~HasColumn(df.columns, value_col)
    THEN [exc |-> "KeyError", frame |-> df]
    ELSE [exc |-> "", frame |-> [df EXCEPT !.columns = add_lag_features(df.columns, value_col, lags)]]

SupportedStats == {"mean", "std", "min", "max"}
\* stats as passed: None, or a list of names.
NoStats == [none |-> TRUE, list |-> <<>>]
StatsList(l) == [none |-> FALSE, list |-> l]
\* Lines 77-78.
StatsOrDefault(stats) == IF stats.none THEN DefaultStats ELSE stats.list
\* The iterations of the nested loops of lines 79-80, in order.
LoopPairs(windows, stats) ==
    [i \in 1..(Len(windows) * Len(stats)) |->
        [window |-> windows[((i - 1) \div Len(stats)) + 1],
         stat |-> stats[((i - 1) % Len(stats)) + 1]]]
\* Lines 81-92 for the remaining iterations: a column is assigned per
\* iteration until one raises.
RECURSIVE RollingLoop(_, _, _)
RollingLoop(columns, value_col, pairs) ==
    IF pairs = <<>> THEN [exc |-> "", columns |-> columns]
    ELSE IF ~HasColumn(columns, value_col) THEN [exc |-> "KeyError", columns |-> columns]
    ELSE IF pairs[1].stat \notin SupportedStats
    THEN [exc |-> "ValueError: Unsupported stat", columns |-> columns]
    ELSE RollingLoop(SetColumn(columns, RollName(value_col, pairs[1].stat, pairs[1].window)),
                     value_col, Tail(pairs))
\* add_rolling_features (62-93): [exc, frame] as for add_lag_features.
AddRollingFeatures(df, value_col, windows, stats) ==
    LET out == RollingLoop(df.columns, value_col, LoopPairs(windows, StatsOrDefault(stats)))
    IN [exc |-> out.exc, frame |-> [df EXCEPT !.columns = out.columns]]

\* The tables a caller starts with: a date column and a value column of up
\* to MaxRows rows, one with a missing value, and the table of
\* tests/test_transforms.py 28, 40.
MaxRows == 4
TableValues == {10, 20}
TableOf(values) ==
    [columns |-> <<DateCol, Col("value")>>,
     stored |-> <<DateCol, Col("value")>>,
     rows |-> [p \in 1..Len(values) |-> [idx |-> p - 1, cells |-> <<p, values[p]>>]]]
TestTable ==
    [columns |-> <<Col("value")>>,
     stored |-> <<Col("value")>>,
     rows |-> [p \in 1..5 |-> [idx |-> p - 1, cells |-> <<10 * p>>]]]
GapTable == TableOf(<<20, NaN, 10, 20>>)
TransformTables ==
    {TableOf(v) : v \in SeqsUpTo(TableValues, MaxRows)} \cup {GapTable, TestTable}
\* A caller calls again on a frame that has gained at most one column.
DerivedCount(df) == Len(df.columns) - Len(df.stored)
\* The arguments of the calls.
ValueCols(df) == (Range(df.columns) \ {DateCol}) \cup {Col("volume")}
LagLists == {<<>>, <<1>>, <<1, 2>>, <<3>>}
WindowLists == {<<>>, <<3>>, <<1, 2>>}
StatsArgs ==
    {NoStats, StatsList(<<>>), StatsList(<<"mean">>), StatsList(<<"mean", "std", "min", "max">>),
     StatsList(<<"median">>), StatsList(<<"mean", "median">>)}

Return(fn, passed, value_col, lags, windows, stats, out) ==
    [fn |-> fn, passed |-> passed, value_col |-> value_col, lags |-> lags, windows |-> windows,
     stats |-> stats, exc |-> out.exc, frame |-> IF out.exc = "" THEN out.frame ELSE NoFrame]

TransformInit ==
    /\ table \in TransformTables
    /\ returned = NoReturn
    /\ raw_dir = NoRawDir
    /\ registry = EmptyRegistry
    /\ features_file = NoFile
    /\ inflight = NoRequest
    /\ request = NoRequest
    /\ response = NoResponse
    /\ calls = <<>>
    /\ health = 0
    /\ threads = NoThreads
    /\ forecaster = NoForecaster

\* df = transforms.add_lag_features(df, value_col, lags)
CallAddLagFeatures(value_col, lags) ==
    /\ DerivedCount(table) <= 1
    /\ LET out == AddLagFeatures(table, value_col, lags)
       IN /\ table' = out.frame
          /\ returned' = Return("add_lag_features", table, value_col, lags, <<>>, NoStats, out)
    /\ UNCHANGED <<registry, features_file, exchange_vars, threads, forecaster, raw_dir>>

\* df = transforms.add_rolling_features(df, value_col, windows, stats)
CallAddRollingFeatures(value_col, windows, stats) ==
    /\ DerivedCount(table) <= 1
    /\ LET out == AddRollingFeatures(table, value_col, windows, stats)
       IN /\ table' = out.frame
          /\ returned' = Return("add_rolling_features", table, value_col, <<>>, windows, stats, out)
    /\ UNCHANGED <<registry, features_file, exchange_vars, threads, forecaster, raw_dir>>

AddLag == \E value_col \in ValueCols(table), lags \in LagLists : CallAddLagFeatures(value_col, lags)
AddRolling ==
    \E value_col \in ValueCols(table), windows \in WindowLists, stats \in StatsArgs :
        CallAddRollingFeatures(value_col, windows, stats)
TransformNext == AddLag \/ AddRolling
TransformSpec == TransformInit /\ [][TransformNext]_vars

\* ------------------------------------------------- resample_to_month_start
\* A raw series is a frame of a date column and one value column; its dates
\* are days, [month, day], the month counted from the first month of the
\* data (month 1 is a January).  The label of the "MS" bin a date falls in is
\* the first day of its month, Date(month, 1).
Date(m, d) == [month |-> m, day |-> d]
NotAfter(a, b) == a.month < b.month \/ (a.month = b.month /\ a.day <= b.day)
ObsDate(df, p) == df.rows[p].cells[1]
ObsValue(df, p) == df.rows[p].cells[2]

\* The bins of a grouping by month start that keeps the months with an
\* observation only.
ObservedMonths(df) ==
    LET first == MinSeq([p \in 1..Len(df.rows) |-> ObsDate(df, p).month])
        last == MaxSeq([p \in 1..Len(df.rows) |-> ObsDate(df, p).month])
    IN SelectSeq([i \in 1..(last - first + 1) |-> first + i - 1],
                 LAMBDA m : \E p \in 1..Len(df.rows) : ObsDate(df, p).month = m)
\* The bins of df.resample("MS") (35, 38): every month from the month of the
\* earliest date to the month of the latest.
ResampleMonths(df) ==
    LET first == MinSeq([p \in 1..Len(df.rows) |-> ObsDate(df, p).month])
        last == MaxSeq([p \in 1..Len(df.rows) |-> ObsDate(df, p).month])
    IN [i \in 1..(last - first + 1) |-> first + i - 1]

\* The values of the observations of month m that are not missing.
MonthValues(df, m) ==
    LET ps == SelectSeq([p \in 1..Len(df.rows) |-> p],
                        LAMBDA p : ObsDate(df, p).month = m /\ ObsValue(df, p) # NaN)
    IN [i \in 1..Len(ps) |-> ObsValue(df, ps[i])]
\* Resampler.mean() / .sum() of one bin: the mean is missing for a bin
\* without a value, the sum of such a bin is 0.
BinMean(vals) == IF vals = <<>> THEN NaN ELSE SumSeq(vals) \div Len(vals)
BinSum(vals) == SumSeq(vals)
\* Resampler.ffill() for the bin label `start`: the value of the latest
\* observation that is not after it, missing when there is none.
FilledValue(df, start) ==
    LET ps == {p \in 1..Len(df.rows) : NotAfter(ObsDate(df, p), start)}
    IN IF ps = {} THEN NaN
       ELSE ObsValue(df, CHOOSE p \in ps : \A q \in ps : NotAfter(ObsDate(df, q), ObsDate(df, p)))
HasDuplicateDates(df) ==
    \E p, q \in 1..Len(df.rows) : p # q /\ ObsDate(df, p) = ObsDate(df, q)

Hows == {"mean", "sum", "ffill"}
\* resample_to_month_start (14-41): [exc, frame].  The frame passed in is
\* copied (28) and stays as it is.  ffill reindexes the series onto the bin
\* labels, which pandas refuses for an index with duplicate dates; getattr
\* (38) raises for a name the resampler does not have.
resample_to_month_start(df, how) ==
    IF how \notin Hows
    THEN [exc |-> "AttributeError", frame |-> NoFrame]
    ELSE IF df.rows = <<>>
    THEN [exc |-> "", frame |-> [df EXCEPT !.rows = <<>>]]
    ELSE IF how = "ffill" /\ HasDuplicateDates(df)
    THEN [exc |-> "ValueError: cannot reindex on an axis with duplicate labels", frame |-> NoFrame]
    ELSE LET months == ResampleMonths(df)
         IN [exc |-> "",
             frame |-> [df EXCEPT !.rows =
                 [i \in 1..Len(months) |->
                     [idx |-> i - 1,
                      cells |-> <<Date(months[i], 1),
                                  CASE how = "mean" -> BinMean(MonthValues(df, months[i]))
                                    [] how = "sum" -> BinSum(MonthValues(df, months[i]))
                                    [] how = "ffill" -> FilledValue(df, Date(months[i], 1))>>]]]]

\* The series resampled: up to MaxObs observations in any order, on the
\* first or a later day of ObsMonths months, and the annual series of up to
\* MaxYears years (one record per year, dated 1 January) that
\* build_features.py 156 resamples.
MaxObs == 3
MaxYears == 2
ObsMonths == 3
SeriesOf(obs) ==
    [columns |-> <<DateCol, Col("value")>>,
     stored |-> <<DateCol, Col("value")>>,
     rows |-> [p \in 1..Len(obs) |-> [idx |-> p - 1, cells |-> <<obs[p][1], obs[p][2]>>]]]
Observations == {<<Date(m, d), v>> : m \in 1..ObsMonths, d \in {1, 15}, v \in TableValues}
AnnualSeries(n) == SeriesOf([y \in 1..n |-> <<Date(12 * (y - 1) + 1, 1), 100 + 10 * y>>])
ResampleTables ==
    {SeriesOf(obs) : obs \in SeqsUpTo(Observations, MaxObs)}
    \cup {AnnualSeries(n) : n \in 1..MaxYears}

ResampleInit ==
    /\ table \in ResampleTables
    /\ returned = NoReturn
    /\ raw_dir = NoRawDir
    /\ registry = EmptyRegistry
    /\ features_file = NoFile
    /\ inflight = NoRequest
    /\ request = NoRequest
    /\ response = NoResponse
    /\ calls = <<>>
    /\ health = 0
    /\ threads = NoThreads
    /\ forecaster = NoForecaster

\* out = transforms.resample_to_month_start(df, "date", ["value"], how)
CallResample(how) ==
    /\ LET out == resample_to_month_start(table, how)
       IN returned' = [fn |-> "resample_to_month_start", passed |-> table, how |-> how,
                       exc |-> out.exc, frame |-> out.frame]
    /\ UNCHANGED <<table, registry, features_file, exchange_vars, threads, forecaster, raw_dir>>
Resample == \E how \in Hows \cup {"average"} : CallResample(how)
ResampleSpec == ResampleInit /\ [][Resample]_vars

\* ----------------------------------------------------------- build_features
\* The raw sources under data/raw.  A Saudi production file has a year
\* column (or lacks it), an indicator column under some name ("" when it has
\* none) and a value column; its rows are [year, indicator, value].  An energy
\* file (world primary energy, renewables) has rows [year, country, value],
\* the country under the column `country` (names), `ref_area` (ISO codes) or
\* under no column at all.  The Brent workbook is a list of dated prices.
\* Years and months are counted from the first year of the data.
gcc_countries == {"saudi arabia", "united arab emirates", "kuwait", "qatar", "oman", "bahrain"}
gcc_codes == {"SA", "AE", "KW", "QA", "OM", "BH"}
YearStart(y) == Date(12 * (y - 1) + 1, 1)
\* str.lower() / str.upper() on the country values the sources hold.
Lower(s) ==
    CASE s = "Saudi Arabia" -> "saudi arabia"
      [] s = "Qatar" -> "qatar"
      [] s = "Norway" -> "norway"
      [] OTHER -> s
Upper(s) ==
    CASE s = "sa" -> "SA"
      [] s = "no" -> "NO"
      [] OTHER -> s
\* cleaning._standardise_columns (19-29) on the names an indicator column has.
StandardiseColumn(name) ==
    CASE name = "Production Indicator" -> "production_indicator"
      [] name = "production indicator" -> "production_indicator"
      [] name = "Indicator" -> "indicator"
      [] OTHER -> name
\* `"production" in c or "output" in c` (cleaning.py 84) on those names.
IsProdCol(name) == name = "production_indicator"
\* str.lower().str.contains('total') (build_features.py 86).
ContainsTotal(s) == s = "Total"

\* A sequence without the elements that do not satisfy a row test is built
\* with SelectSeq; the positions of a sequence:
Indices(seq) == [i \in 1..Len(seq) |-> i]
\* The elements of a finite set of integers in ascending order.
RECURSIVE Ascending(_)
Ascending(S) ==
    IF S = {} THEN <<>>
    ELSE LET m == CHOOSE x \in S : \A y \in S : x <= y
         IN <<m>> \o Ascending(S \ {m})

\* clean_world_primary_energy (32-57): the rows kept, each with the position
\* `src` of the raw row it is; the GCC filter is applied to a `country`
\* column, else to a `ref_area` column, else not at all.
clean_world_primary_energy(file) ==
    LET keep == SelectSeq(Indices(file.rows), LAMBDA i :
                    CASE file.country_col = "country" -> Lower(file.rows[i].country) \in gcc_countries
                      [] file.country_col = "ref_area" -> Upper(file.rows[i].country) \in gcc_codes
                      [] OTHER -> TRUE)
    IN [i \in 1..Len(keep) |->
          [src |-> keep[i], date |-> YearStart(file.rows[keep[i]].year), value |-> file.rows[keep[i]].value]]
\* clean_renewables (60-72): every row is kept.
clean_renewables(file) ==
    [i \in 1..Len(file.rows) |->
        [src |-> i, date |-> YearStart(file.rows[i].year), value |-> file.rows[i].value]]
\* aggregate_world_energy (34-48) and aggregate_renewables (51-65):
\* groupby("date").sum(), one row per date in ascending order; `srcs` are the
\* raw rows summed into it.
AggregateByDate(rows) ==
    LET months == Ascending({rows[i].date.month : i \in 1..Len(rows)})
    IN [k \in 1..Len(months) |->
          LET ps == SelectSeq(Indices(rows), LAMBDA i : rows[i].date.month = months[k])
          IN [date |-> Date(months[k], 1),
              value |-> SumSeq([j \in 1..Len(ps) |-> rows[ps[j]].value]),
              srcs |-> {rows[ps[j]].src : j \in 1..Len(ps)}]]
aggregate_world_energy(rows) == AggregateByDate(rows)
aggregate_renewables(rows) == AggregateByDate(rows)

\* build_features.py 151-152: the rows of the raw Saudi file whose indicator
\* is 'Total', when the column is named 'Production Indicator'.
FilterTotal(file) ==
    LET keep == IF file.indicator_col = "Production Indicator"
                THEN SelectSeq(Indices(file.rows), LAMBDA i : file.rows[i].indicator = "Total")
                ELSE Indices(file.rows)
    IN [i \in 1..Len(keep) |->
          [src |-> keep[i], year |-> file.rows[keep[i]].year,
           indicator |-> file.rows[keep[i]].indicator, value |-> file.rows[keep[i]].value]]
\* clean_saudi_crude (75-91): the columns are renamed; every column whose
\* name holds "production" is coerced to numbers and forward filled, which
\* leaves an indicator column of words missing on every row.
clean_saudi_crude(file, rows) ==
    [i \in 1..Len(rows) |->
        [src |-> rows[i].src, date |-> YearStart(rows[i].year), value |-> rows[i].value,
         indicator |-> rows[i].indicator,
         indicator_na |-> IsProdCol(StandardiseColumn(file.indicator_col))]]
\* drop_duplicates(subset="date"): the first row of every date is kept.
DropDuplicateDates(rows) ==
    LET keep == SelectSeq(Indices(rows), LAMBDA i : \A j \in 1..(i - 1) : rows[j].date # rows[i].date)
    IN [k \in 1..Len(keep) |-> rows[keep[k]]]
\* prepare_saudi_production (68-102): the 'total' filter is applied when an
\* indicator column is found and holds a value that is not missing.
prepare_saudi_production(file, rows) ==
    LET indicator_col == StandardiseColumn(file.indicator_col)
        found == indicator_col \in {"production_indicator", "Production Indicator", "production indicator"}
        kept == IF found /\ \E i \in 1..Len(rows) : ~rows[i].indicator_na
                THEN SelectSeq(rows, LAMBDA r : ~r.indicator_na /\ ContainsTotal(r.indicator))
                ELSE rows
    IN DropDuplicateDates(kept)

\* prepare_brent (105-127): the prices as monthly means.
prepare_brent(file) == resample_to_month_start(SeriesOf(file.rows), "mean")
\* A placeholder of missing prices on the dates of the production frame.
PlaceholderOfNaN(saudi_df) ==
    [saudi_df EXCEPT !.rows = [p \in 1..Len(saudi_df.rows) |->
        [idx |-> p - 1, cells |-> <<ObsDate(saudi_df, p), NaN>>]]]
\* build_features.py 165-166: a zero on every date of the production frame.
PlaceholderBrent(saudi_df) ==
    [saudi_df EXCEPT !.rows = [p \in 1..Len(saudi_df.rows) |->
        [idx |-> p - 1, cells |-> <<ObsDate(saudi_df, p), 0>>]]]

\* The base columns of the merged frame: the date, the target, the price and
\* one summed indicator of each energy source.
MergedColumns ==
    <<DateCol, Col(target_col), Col("brent_price"), Col("renewables_value"), Col("world_value")>>
\* The value a left merge on the date brings in from the right frame, which
\* has one row per date: missing where the right frame lacks the date.
Joined(dates, values, date) ==
    IF \E i \in 1..Len(dates) : dates[i] = date
    THEN values[CHOOSE i \in 1..Len(dates) : dates[i] = date]
    ELSE NaN
\* DataFrame.ffill() of one column: the latest value at or before the row
\* that is not missing.
Ffill(column, p) ==
    LET qs == {q \in 1..p : column[q] # NaN}
    IN IF qs = {} THEN NaN ELSE column[CHOOSE q \in qs : \A r \in qs : r <= q]
\* build_features.py 169-185: the production frame left-merged with the
\* three others, sorted by date, forward filled, with the derived columns.
\* The dates are month starts and are kept as month numbers.
MergeAll(saudi_df, brent_df, renew_df, world_df) ==
    LET n == Len(saudi_df.rows)
        order == Ascending({ObsDate(saudi_df, p).month : p \in 1..n})
        at == [i \in 1..n |-> CHOOSE p \in 1..n : ObsDate(saudi_df, p).month = order[i]]
        brent == [i \in 1..n |->
                    Joined([p \in 1..Len(brent_df.rows) |-> ObsDate(brent_df, p)],
                           [p \in 1..Len(brent_df.rows) |-> ObsValue(brent_df, p)],
                           ObsDate(saudi_df, at[i]))]
        renew == [i \in 1..n |->
                    Joined([p \in 1..Len(renew_df) |-> renew_df[p].date],
                           [p \in 1..Len(renew_df) |-> renew_df[p].value],
                           ObsDate(saudi_df, at[i]))]
        world == [i \in 1..n |->
                    Joined([p \in 1..Len(world_df) |-> world_df[p].date],
                           [p \in 1..Len(world_df) |-> world_df[p].value],
                           ObsDate(saudi_df, at[i]))]
        saudi == [i \in 1..n |-> ObsValue(saudi_df, at[i])]
    IN [columns |-> DeriveLoop(MergedColumns, Tail(MergedColumns)),
        stored |-> MergedColumns,
        dates |-> [i \in 1..n |-> ObsDate(saudi_df, at[i])],
        rows |-> Strict([i \in 1..n |->
                    [idx |-> i - 1,
                     cells |-> <<order[i], Ffill(saudi, i), Ffill(brent, i),
                                 Ffill(renew, i), Ffill(world, i)>>]])]
\* A frame written as it is, rows with a missing value included.
CsvOfAllRows(df) ==
    [exists |-> TRUE,
     columns |-> df.columns,
     rows |-> Strict([i \in 1..Len(df.rows) |->
                Strict([j \in 1..Len(df.columns) |->
                    IF CellIsNaN(df, df.columns[j], i) THEN NaN ELSE Cell(df, df.columns[j], i)])])]
\* dropna (188) and to_csv(index=False) (193): the rows without a missing
\* value, every column written.
DropnaCsv(df) ==
    LET keep == SelectSeq(Indices(df.rows), LAMBDA p : ~RowHasNaN(df, p))
    IN [exists |-> TRUE,
        columns |-> df.columns,
        rows |-> Strict([i \in 1..Len(keep) |->
                   Strict([j \in 1..Len(df.columns) |-> Cell(df, df.columns[j], keep[i])])])]

\* A run that raised after it had opened features.csv for writing.
BuildFailedWhileWriting(exc, file) ==
    [exc |-> exc, warned |-> FALSE, saudi |-> <<>>, renew |-> <<>>, world |-> <<>>,
     grid |-> <<>>, merged |-> <<>>, file |-> [file EXCEPT !.exists = TRUE, !.rows = <<>>]]
\* A run of build_features that raised: nothing was merged or written.
BuildFailed(exc, file) ==
    [exc |-> exc, warned |-> FALSE, saudi |-> <<>>, renew |-> <<>>, world |-> <<>>,
     grid |-> <<>>, merged |-> <<>>, file |-> file]
\* build_features (130-196) on the sources `raw` with `file` on disk:
\* [exc, warned, the prepared production rows, the two aggregates, the dates
\* and the base rows of the merged frame, features.csv afterwards].
build_features(raw, file) ==
    IF ~raw.world.exists THEN BuildFailed("FileNotFoundError", file)
    ELSE IF ~raw.world.year_col THEN BuildFailed("KeyError: 'date'", file)
    ELSE IF ~raw.renew.exists THEN BuildFailed("FileNotFoundError", file)
    ELSE IF ~raw.renew.year_col THEN BuildFailed("KeyError: 'date'", file)
    ELSE IF ~raw.saudi.exists THEN BuildFailed("FileNotFoundError", file)
    ELSE IF ~raw.saudi.year_col THEN BuildFailed("KeyError: 'date'", file)
    ELSE
    LET world_df == aggregate_world_energy(clean_world_primary_energy(raw.world))
        renew_df == aggregate_renewables(clean_renewables(raw.renew))
        saudi_rows == prepare_saudi_production(raw.saudi,
                          clean_saudi_crude(raw.saudi, FilterTotal(raw.saudi)))
        saudi_df == resample_to_month_start(
                        SeriesOf([i \in 1..Len(saudi_rows) |-> <<saudi_rows[i].date, saudi_rows[i].value>>]),
                        "ffill").frame
        brent_raised == ~raw.brent.readable
        brent_df == IF brent_raised THEN PlaceholderBrent(saudi_df) ELSE prepare_brent(raw.brent).frame
        df == MergeAll(saudi_df, brent_df, renew_df, world_df)
    IN [exc |-> "", warned |-> brent_raised, saudi |-> saudi_rows, renew |-> renew_df,
        world |-> world_df, grid |-> df.dates, merged |-> df.rows, file |-> DropnaCsv(df)]

\* The sources a build runs on: production records of up to BuildYears
\* years, with or without the percentage rows the SAMA file carries next to
\* the totals, under each name of the indicator column; energy records of
\* GCC members and of others; a price series that covers the production
\* months, starts later, or cannot be read.
BuildYears == 3
LateStart == 4
IndicatorSpellings == {"Production Indicator", "production_indicator", "production indicator"}
SaudiRecord(y, indicator) ==
    [year |-> y, indicator |-> indicator, value |-> IF indicator = "Total" THEN 100 + 10 * y ELSE y]
SaudiRows(n, pattern) ==
    CASE pattern = "total" -> [i \in 1..n |-> SaudiRecord(i, "Total")]
      [] pattern = "pct_first" ->
            [i \in 1..(2 * n) |-> SaudiRecord((i + 1) \div 2, IF i % 2 = 1 THEN "Percentage Change" ELSE "Total")]
      [] pattern = "pct_last" ->
            [i \in 1..(2 * n) |-> SaudiRecord((i + 1) \div 2, IF i % 2 = 1 THEN "Total" ELSE "Percentage Change")]
SaudiFile(n, pattern, name) ==
    [exists |-> TRUE, year_col |-> TRUE, indicator_col |-> name, rows |-> SaudiRows(n, pattern)]
MissingFile == [exists |-> FALSE]
SaudiFiles ==
    {SaudiFile(n, pattern, name) :
        n \in 2..BuildYears, pattern \in {"total", "pct_first", "pct_last"}, name \in IndicatorSpellings}
    \cup {MissingFile, [SaudiFile(BuildYears, "total", "Production Indicator") EXCEPT !.year_col = FALSE]}
EnergyFile(n, country_col, countries) ==
    [exists |-> TRUE, year_col |-> TRUE, country_col |-> country_col,
     rows |-> [i \in 1..(n * Len(countries)) |->
                 [year |-> ((i - 1) \div Len(countries)) + 1,
                  country |-> countries[((i - 1) % Len(countries)) + 1],
                  value |-> 10 * (((i - 1) \div Len(countries)) + 1) + ((i - 1) % Len(countries))]]]
GccEnergy == EnergyFile(BuildYears, "country", <<"Saudi Arabia", "Qatar">>)
EnergyFiles ==
    {GccEnergy,
     EnergyFile(BuildYears, "country", <<"Saudi Arabia", "Norway">>),
     EnergyFile(BuildYears, "ref_area", <<"sa", "no">>),
     EnergyFile(BuildYears, "", <<"Saudi Arabia", "Norway">>),
     MissingFile,
     [GccEnergy EXCEPT !.year_col = FALSE]}
BrentFile(first, last) ==
    [readable |-> TRUE,
     rows |-> [i \in 1..(last - first + 1) |->
                 <<Date(first + i - 1, 1), HistValue("brent_price", first + i - 1)>>]]
BrentFiles ==
    {[readable |-> FALSE],
     BrentFile(1, 12 * BuildYears),
     BrentFile(LateStart, 12 * BuildYears)}
RawDir(saudi, brent, renew, world) ==
    [present |-> TRUE, saudi |-> saudi, brent |-> brent, renew |-> renew, world |-> world]
RawDirs ==
    {RawDir(saudi, brent, GccEnergy, GccEnergy) : saudi \in SaudiFiles, brent \in BrentFiles}
    \cup {RawDir(SaudiFile(BuildYears, "total", "Production Indicator"), BrentFile(1, 12 * BuildYears),
                 renew, world) : renew \in EnergyFiles, world \in EnergyFiles}

\* The features.csv an earlier run on two years of records left behind.
OldMatrix ==
    build_features(RawDir(SaudiFile(2, "total", "Production Indicator"), BrentFile(1, 12 * BuildYears),
                          GccEnergy, GccEnergy), NoFile).file

BuilderInit ==
    /\ raw_dir \in RawDirs
    /\ features_file \in {NoFile, OldMatrix}
    /\ returned = NoReturn
    /\ table = NoFrame
    /\ registry = EmptyRegistry
    /\ inflight = NoRequest
    /\ request = NoRequest
    /\ response = NoResponse
    /\ calls = <<>>
    /\ health = 0
    /\ threads = NoThreads
    /\ forecaster = NoForecaster

\* df = build_features(): the file is written by the last statement but one
\* (193), so a run that raised leaves it as it was.
BuildFeatures ==
    /\ LET out == build_features(raw_dir, features_file)
       IN /\ returned' = [fn |-> "build_features", exc |-> out.exc, warned |-> out.warned,
                          saudi |-> out.saudi, renew |-> out.renew, world |-> out.world,
                          grid |-> out.grid, merged |-> out.merged, before |-> features_file]
          /\ features_file' = out.file
    /\ UNCHANGED <<registry, exchange_vars, threads, forecaster, table, raw_dir>>
BuilderNext == BuildFeatures
BuilderSpec == BuilderInit /\ [][BuilderNext]_vars

\* ------------------------------------------ training runs and model info
\* The registry keeps, for every registered model, its latest version in each
\* stage (latest_versions).  A new version gets the number after the highest
\* the model has.
TopVersion(rm) ==
    IF rm.latest_versions = <<>> THEN 0
    ELSE MaxSeq([j \in 1..Len(rm.latest_versions) |-> rm.latest_versions[j].version])
LatestIn(rm, stage) ==
    IF \E j \in 1..Len(rm.latest_versions) : rm.latest_versions[j].current_stage = stage
    THEN rm.latest_versions[CHOOSE j \in 1..Len(rm.latest_versions) :
                                rm.latest_versions[j].current_stage = stage].version
    ELSE 0
LatestVersions(none, staged, archived) ==
    (IF none = 0 THEN <<>> ELSE <<[version |-> none, current_stage |-> "None"]>>)
    \o (IF staged = 0 THEN <<>> ELSE <<[version |-> staged, current_stage |-> MODEL_REGISTRY_STAGE]>>)
    \o (IF archived = 0 THEN <<>> ELSE <<[version |-> archived, current_stage |-> "Archived"]>>)
\* The registered model gcc_oil_forecast_h{h}_{mtype}, created by its first
\* log_model.
Existing(reg, h, mtype) ==
    IF \E i \in 1..Len(reg) : reg[i].horizon = h /\ reg[i].mtype = mtype
    THEN reg[CHOOSE i \in 1..Len(reg) : reg[i].horizon = h /\ reg[i].mtype = mtype]
    ELSE [horizon |-> h, mtype |-> mtype, latest_versions |-> <<>>,
          signature |-> [known |-> FALSE, inputs |-> <<>>]]
\* mlflow.sklearn.log_model(..., registered_model_name=...) (train.py
\* 130-134): a new version of that model, in no stage.
AfterLogModel(rm) ==
    [rm EXCEPT !.latest_versions =
        LatestVersions(TopVersion(rm) + 1, LatestIn(rm, MODEL_REGISTRY_STAGE), LatestIn(rm, "Archived"))]
\* register_model and transition_model_version_stage with
\* archive_existing_versions=True (train.py 195-202): one more version of the
\* model named, moved to the configured stage; the versions of that same
\* registered model which were in the stage are archived.
AfterPromotion(rm) ==
    [rm EXCEPT !.latest_versions =
        LatestVersions(LatestIn(rm, "None"), TopVersion(rm) + 1,
                       IF LatestIn(rm, MODEL_REGISTRY_STAGE) # 0
                       THEN LatestIn(rm, MODEL_REGISTRY_STAGE) ELSE LatestIn(rm, "Archived"))]
\* train_all_horizons (139-205) where best[h] had the lowest RMSE of horizon
\* h: every type is logged, the best one promoted.
train_all_horizons(reg, best) ==
    [i \in 1..(Len(Horizons) * Len(ModelTypes)) |->
        LET h == Horizons[((i - 1) \div Len(ModelTypes)) + 1]
            mtype == ModelTypes[((i - 1) % Len(ModelTypes)) + 1]
            logged == AfterLogModel(Existing(reg, h, mtype))
        IN IF best[h] = mtype THEN AfterPromotion(logged) ELSE logged]

\* registry.get_model_metadata(name, stage) (45-65): the latest version of
\* the model of that name in the stage; MLflow raises for a name that is not
\* registered, the function itself when no version is in the stage.
get_model_metadata(reg, name) ==
    LET named == SelectSeq(reg, LAMBDA rm : RegisteredName(rm.horizon, rm.mtype) = name)
    IN IF named = <<>> THEN [exc |-> "RestException: RESOURCE_DOES_NOT_EXIST"]
       ELSE IF ~HasStageVersion(named[1]) THEN [exc |-> "ValueError: No model in stage"]
       ELSE [exc |-> "", horizon |-> named[1].horizon, mtype |-> named[1].mtype,
             version |-> StageVersion(named[1]).version]
\* The parameters get_model_metadata accepts (registry.py 45).
MetadataParams == {"name", "stage"}
\* model_info (67-80) calls get_model_metadata(prefix="gcc_oil_forecast_h{h}");
\* a keyword the function does not have raises TypeError before its body
\* runs, and every exception is answered with 404.
model_info(reg, h) ==
    LET meta == IF "prefix" \in MetadataParams
                THEN get_model_metadata(reg, Digits(h))
                ELSE [exc |-> "TypeError: unexpected keyword argument 'prefix'"]
    IN IF meta.exc # ""
       THEN [status |-> NotFoundStatus, detail |-> meta.exc, horizon |-> h, version |-> 0]
       ELSE [status |-> 200, detail |-> "", horizon |-> h, version |-> meta.version]

\* The outcomes of the runs: one type wins every horizon, or the types
\* alternate over the horizons.
BestChoices ==
    {[h \in 1..Len(Horizons) |-> t] : t \in Range(ModelTypes)}
    \cup {[h \in 1..Len(Horizons) |-> ModelTypes[(h % Len(ModelTypes)) + 1]]}
\* Training runs are followed until a model has MaxVersion versions.
MaxVersion == 4

TrainInit ==
    /\ registry = EmptyRegistry
    /\ returned = NoReturn
    /\ response = NoResponse
    /\ forecaster = NoForecaster
    /\ features_file = NoFile
    /\ inflight = NoRequest
    /\ request = NoRequest
    /\ calls = <<>>
    /\ health = 0
    /\ threads = NoThreads
    /\ table = NoFrame
    /\ raw_dir = NoRawDir

\* One run of train_all_horizons; `results` is the list it logs (203, 205).
Train(best) ==
    /\ \A i \in 1..Len(registry) : TopVersion(registry[i]) + 2 <= MaxVersion
    /\ registry' = train_all_horizons(registry, best)
    /\ returned' = [fn |-> "train_all_horizons", results |-> best]
    /\ UNCHANGED <<features_file, exchange_vars, threads, forecaster, table, raw_dir>>
\* GET /model/{h}/info
GetModelInfo(h) ==
    /\ response' = model_info(registry, h)
    /\ UNCHANGED <<registry, features_file, inflight, request, calls, health, threads, library_vars>>
TrainAllHorizons == \E best \in BestChoices : Train(best)
ModelInfo == \E h \in Range(Horizons) : GetModelInfo(h)
ConstructAfterTraining == \E h \in Range(Horizons) : Construct(h)
TrainNext == TrainAllHorizons \/ ModelInfo \/ ConstructAfterTraining
TrainSpec == TrainInit /\ [][TrainNext]_vars

\* -------------------------------------------------------------- properties
Answered == request # NoRequest /\ inflight = NoRequest
\* The Forecaster.predict calls of the current exchange that returned.
Returned == {k \in 1..Len(calls) : calls[k].exc = ""}
\* The number of history rows of a call's combined frame, and the position in
\* it of the row synthesized for dates[i].
HistLen(call) == Len(call.combined.rows) - Len(call.df_pred)
SynthPos(call, i) ==
    CHOOSE p \in 1..Len(call.combined.rows) : call.combined.rows[p].idx = HistLen(call) + i - 1
IsSynth(call, p) == call.combined.rows[p].idx >= HistLen(call)

Distinct(seq) == \A i, j \in 1..Len(seq) : i # j => seq[i] # seq[j]

\* C1: whenever Forecaster.predict returns one prediction per requested date
\* for pairwise distinct dates, the i-th prediction is the model output for
\* the row synthesized for dates[i].
C1_RequestOrder ==
    \A k \in Returned :
        (Distinct(calls[k].dates) /\ Len(calls[k].preds) = Len(calls[k].dates)) =>
            \A i \in 1..Len(calls[k].dates) :
                calls[k].preds[i] = Regress(calls[k].combined, SynthPos(calls[k], i))

\* C2: the rows handed to the model are exactly the synthesized rows, one per
\* requested date: no history row among them, no synthesized row dropped.
C2_OnlySynthesizedRows ==
    \A k \in Returned :
        /\ Len(calls[k].preds) = Len(calls[k].dates)
        /\ \A j \in 1..Len(calls[k].pred_df) : IsSynth(calls[k], calls[k].pred_df[j])
        /\ \A i \in 1..Len(calls[k].dates) : SynthPos(calls[k], i) \in Range(calls[k].pred_df)

\* The base, lag and rolling columns of the matrix, and a row's values of them.
MatrixFeatures == SelectSeq(BuilderColumns, LAMBDA c : c # DateCol)
RowFeatures(call, p) ==
    [j \in 1..Len(MatrixFeatures) |-> Cell(call.combined, MatrixFeatures[j], p)]
\* The scenario values at position i, and the outcomes of the call that
\* requests dates[i] alone with them.
ScenarioAt(scenario, i) ==
    [c \in {k \in DOMAIN scenario : i <= Len(scenario[k])} |-> <<scenario[c][i]>>]
Alone(call, i) ==
    ForecasterPredict(load_model(registry, 1), features_file, <<call.dates[i]>>,
                      ScenarioAt(call.scenario, i))

\* C3: when every synthesized row of a call reaches the model, the row of a
\* repeated date has the feature values it has when its date is requested
\* alone with the scenario values of its position.
C3_IndependentRepetitions ==
    \A k \in Returned :
        \A i \in 1..Len(calls[k].dates) :
            (/\ \E j \in 1..Len(calls[k].dates) : j # i /\ calls[k].dates[j] = calls[k].dates[i]
             /\ \A j \in 1..Len(calls[k].dates) : SynthPos(calls[k], j) \in Range(calls[k].pred_df))
            => \E a \in Alone(calls[k], i) :
                  /\ a.exc = ""
                  /\ \E q \in Range(a.pred_df) :
                        /\ IsSynth(a, q)
                        /\ RowFeatures(a, q) = RowFeatures(calls[k], SynthPos(calls[k], i))

\* C4: a /whatif answered with 200 carries the baseline of the call without
\* override and exactly one prediction per value, the i-th being the model
\* output for a synthesized copy of the date whose value of the variable is
\* values[i].
C4_WhatIfPredictions ==
    (Answered /\ request.kind = "whatif" /\ response.status = 200) =>
        /\ Len(calls) = 2
        /\ calls[1].scenario = <<>>
        /\ response.baseline = <<calls[1].preds[1]>>
        /\ Len(response.predictions) = Len(request.values)
        /\ \A i \in 1..Len(request.values) :
              /\ IsSynth(calls[2], calls[2].pred_df[i])
              /\ response.predictions[i] = Regress(calls[2].combined, calls[2].pred_df[i])
              /\ HasColumn(calls[2].combined.stored, request.variable) =>
                    Cell(calls[2].combined, request.variable, calls[2].pred_df[i])
                        = request.values[i]

\* C5: a /predict request with an empty dates list is answered with status
\* 400, without a Forecaster being constructed or a model invoked.
C5_EmptyDates400 ==
    (Answered /\ request.kind = "predict" /\ request.dates = <<>>) =>
        /\ response.status = 400
        /\ ~response.built
        /\ calls = <<>>

\* C6: a /predict request with an unparseable date at some position is
\* rejected with no model loaded and no matrix read, and not with the status
\* of an internal failure.
C6_BadDateRejectedEarly ==
    (Answered /\ request.kind = "predict" /\ \E i \in 1..Len(request.dates) : ~request.dates[i].ok) =>
        /\ ~response.built
        /\ \A k \in 1..Len(calls) : ~calls[k].read
        /\ response.status \notin {200, 500}

\* A request that passed the schema and met an internal failure: no
\* registered model, no or an empty feature matrix, an exception in
\* Forecaster.predict, or no baseline prediction.
PassedSchema ==
    IF request.kind = "predict" THEN ValidPredictRequest(request) ELSE ValidWhatIfRequest(request)
InternalFailure ==
    /\ Answered
    /\ PassedSchema
    /\ \/ Candidates(registry, 1) = <<>>
       \/ ~features_file.exists
       \/ features_file.rows = <<>>
       \/ \E k \in 1..Len(calls) : calls[k].exc # ""
       \/ request.kind = "whatif" /\ calls # <<>> /\ calls[1].preds = <<>>

\* C7: every internal failure is answered with status 500 and a message, and
\* the service goes on answering: a GET /health sent after the 500 is
\* answered with a 200.
C7_FailuresAre500AndServiceLives ==
    /\ [](InternalFailure => (response.status = 500 /\ response.detail # ""))
    /\ []((response.status = 500 /\ inflight = HealthRequest) => <>(health = 200))
C7_Witness ==
    /\ InternalFailure
    /\ request.kind = "whatif"
    /\ request.date.ok
    /\ response.status = 500
    /\ health = 200

\* The entries of a scenario whose variable is a column of the matrix.
KnownPart(scenario) ==
    [c \in {k \in DOMAIN scenario : HasColumn(features_file.columns, k)} |-> scenario[c]]
HasUnknownKey(call) ==
    \E c \in DOMAIN call.scenario : ~HasColumn(features_file.columns, c)

\* The order in which the sort of the concatenated frame left the rows of a
\* call, and the outcomes under that order of the call without the scenario
\* entries whose variable is no column of the matrix.
SortOutcome(call) == [p \in 1..Len(call.combined.rows) |-> call.combined.rows[p].idx + 1]
WithoutUnknown(call) ==
    ForecasterPredictWhere(load_model(registry, 1), features_file, call.dates,
                           KnownPart(call.scenario), <<SortOutcome(call)>>)

\* C8: when a request has just been answered, a call of it whose scenario
\* names a variable that is no column of the matrix has raised, synthesized
\* and predicted what the call without that entry does.
C8_UnknownVariableIgnored ==
    \A k \in 1..Len(calls) :
        (health = 0 /\ inflight = NoRequest /\ features_file.exists /\ HasUnknownKey(calls[k])) =>
            \E r \in WithoutUnknown(calls[k]) :
                /\ r.exc = calls[k].exc
                /\ r.df_pred = calls[k].df_pred
                /\ r.combined = calls[k].combined
                /\ r.preds = calls[k].preds
C8_Witness ==
    /\ Answered
    /\ response.status = 200
    /\ response.predictions # <<>>
    /\ \E k \in 1..Len(calls) :
          /\ features_file.exists
          /\ HasUnknownKey(calls[k])
          /\ \E c \in DOMAIN calls[k].scenario : c = UnknownCol /\ calls[k].scenario[c] # <<>>

\* The template: the row of the persisted matrix with the most recent date.
Template ==
    LET d == ColIndex(features_file.columns, DateCol)
        r == CHOOSE r \in 1..Len(features_file.rows) :
                \A q \in 1..Len(features_file.rows) :
                    features_file.rows[q][d] <= features_file.rows[r][d]
    IN features_file.rows[r]
IsBase(c) == c.ops = <<>> /\ c # DateCol
Overrides(call, c, i) == c \in DOMAIN call.scenario /\ i <= Len(call.scenario[c])

\* C9: in the synthesized rows as concatenated to the history, the value of a
\* base variable v of row i is scenario[v][i] when the scenario covers it and
\* the template's value otherwise, and the history rows are those of the
\* persisted matrix.
C9_SynthesizedBaseValues ==
    \A k \in 1..Len(calls) :
        calls[k].df_pred # <<>> =>
            /\ \A i \in 1..Len(calls[k].df_pred) :
                  \A j \in 1..Len(features_file.columns) :
                      IsBase(features_file.columns[j]) =>
                          calls[k].df_pred[i].cells[j] =
                              IF Overrides(calls[k], features_file.columns[j], i)
                              THEN calls[k].scenario[features_file.columns[j]][i]
                              ELSE Template[j]
            /\ \A p \in 1..Len(calls[k].combined.rows) :
                  ~IsSynth(calls[k], p) =>
                      \A s \in 1..Len(calls[k].combined.stored) :
                          calls[k].combined.rows[p].cells[s] =
                              features_file.rows[calls[k].combined.rows[p].idx + 1]
                                  [ColIndex(features_file.columns, calls[k].combined.stored[s])]
C9_Witness ==
    \E k \in 1..Len(calls) :
        /\ Len(calls[k].df_pred) = 2
        /\ Overrides(calls[k], Col("brent_price"), 1)
        /\ ~Overrides(calls[k], Col("brent_price"), 2)
        /\ calls[k].df_pred[1].cells[ColIndex(features_file.columns, Col("brent_price"))]
              # calls[k].df_pred[2].cells[ColIndex(features_file.columns, Col("brent_price"))]

\* C10: no step changes the persisted feature matrix.
C10_MatrixNeverMutated == [][features_file' = features_file]_vars
C10_Witness ==
    /\ Answered
    /\ features_file.exists
    /\ Len(calls) = 2
    /\ calls[1].read /\ calls[2].read
    /\ response.status = 200

\* The responses of a thread's request when it is handled alone on the
\* features file it met.
AloneResponses(th) ==
    IF ~ValidPredictRequest(th.req) THEN {ValidationError}
    ELSE {out.response : out \in predict(registry, th.seen, th.req)}

\* C11: under every interleaving of the steps of two /predict handlers, the
\* response of each is one its request gets when it runs alone, and the
\* features file a request met on arrival is still the one on disk while the
\* request is handled.
C11_ConcurrentRequestsSafe ==
    \A t \in Threads :
        /\ threads[t].pc # "idle" => features_file = threads[t].seen
        /\ threads[t].pc = "done" => threads[t].response \in AloneResponses(threads[t])
C11_Witness ==
    /\ threads[1].pc = "done"
    /\ threads[1].response.status = 200
    /\ threads[1].response.predictions # <<>>
    /\ threads[2].pc = "read"
    /\ threads[2].req # threads[1].req

\* The variables whose lag and rolling columns a column list holds.
DerivedFrom(columns) == {Parent(c) : c \in {d \in Range(columns) : d.ops # <<>>}}

\* C12: the frame the preparer recomputes has the column set of the persisted
\* matrix: lag and rolling columns of the variables the builder derives them
\* for (the target and each base exogenous column) and of no other column.
C12_SameColumnSet ==
    \A k \in 1..Len(calls) :
        calls[k].combined # NoFrame =>
            /\ DerivedFrom(calls[k].combined.columns) = Range(BuilderLoopCols)
            /\ Range(calls[k].combined.columns) = Range(features_file.columns)

\* The input columns of the signature of the model the service loads, when
\* the logged artifact carries one.
SignatureKnown == Candidates(registry, 1)[1].signature.known
SignatureInputs == Candidates(registry, 1)[1].signature.inputs

\* C13: the matrix a call passes to the model has the signature's columns in
\* the signature's order when the signature is known, and otherwise the
\* columns of the recomputed frame, in its order, without date, the target
\* and every column whose name starts with the target name.
C13_Projection ==
    \A k \in 1..Len(calls) :
        calls[k].invoked =>
            IF SignatureKnown
            THEN calls[k].X_cols = SignatureInputs
            ELSE calls[k].X_cols =
                    SelectSeq(calls[k].combined.columns,
                              LAMBDA c : c # DateCol /\ c.var # target_col)
C13_Witness ==
    /\ Answered
    /\ response.status = 200
    /\ SignatureKnown
    /\ calls[1].invoked
    /\ calls[1].X_cols # <<>>
    /\ \E c \in Range(calls[1].combined.columns) :
          c # DateCol /\ c.var # target_col /\ ~HasColumn(calls[1].X_cols, c)

\* The registered models of a horizon that have a version in the configured
\* stage.
Promoted(horizon) ==
    {i \in 1..Len(registry) :
        /\ registry[i].horizon = horizon
        /\ \E j \in 1..Len(registry[i].latest_versions) :
              registry[i].latest_versions[j].current_stage = MODEL_REGISTRY_STAGE}

\* C14: Forecaster(h) returns an object exactly when a registered model of
\* horizon h has a version in the configured stage, and the model it holds is
\* that version of such a model; otherwise the construction raises.
C14_RegistryLookup ==
    forecaster.called =>
        IF Promoted(forecaster.horizon) = {}
        THEN ~forecaster.returned /\ forecaster.exc # ""
        ELSE /\ forecaster.returned
             /\ \E i \in Promoted(forecaster.horizon) :
                   /\ forecaster.model.horizon = registry[i].horizon
                   /\ forecaster.model.mtype = registry[i].mtype
                   /\ \E j \in 1..Len(registry[i].latest_versions) :
                         /\ registry[i].latest_versions[j].current_stage = MODEL_REGISTRY_STAGE
                         /\ registry[i].latest_versions[j].version = forecaster.model.version
C14_Witness ==
    /\ forecaster.called
    /\ forecaster.returned
    /\ forecaster.horizon = 1
    /\ Len(registry) = 2
    /\ registry[1].horizon = 12
    /\ Promoted(12) = {1}
    /\ Promoted(1) = {2}

LagCall == returned.fn = "add_lag_features" /\ returned.exc = ""
RollingCall == returned.fn = "add_rolling_features" /\ returned.exc = ""
Positions(df) == 1..Len(df.rows)
ColumnValues(df, c) == [p \in Positions(df) |-> Cell(df, c, p)]

\* C15: after add_lag_features, for every lag k of lags the column
\* {col}_lag_{k} holds at row i the value col had at row i - k, and the
\* missing value in the first k rows.
C15_LagValues ==
    LagCall =>
        \A k \in Range(returned.lags) :
            \A p \in Positions(returned.frame) :
                Cell(returned.frame, LagName(returned.value_col, k), p) =
                    IF p <= k THEN NaN ELSE Cell(returned.passed, returned.value_col, p - k)
\* The example of the tests: [10, 20, 30, 40, 50] gives [missing, 10, 20, 30, 40].
C15_Witness ==
    /\ LagCall
    /\ returned.lags = <<1, 2>>
    /\ ColumnValues(returned.passed, Col("value")) = <<10, 20, 30, 40, 50>>
    /\ ColumnValues(returned.frame, LagName(Col("value"), 1)) = <<NaN, 10, 20, 30, 40>>

\* The w values of column c over the trailing window that ends at row p.
TrailingWindow(df, c, w, p) == [j \in 1..w |-> Cell(df, c, p - w + j)]
Complete(df, c, w, p) == p >= w /\ \A j \in 1..w : Cell(df, c, p - w + j) # NaN
\* m is the arithmetic mean of win on the fixed-point grid.
IsMeanOf(m, win) == Len(win) * m <= SumSeq(win) /\ SumSeq(win) < Len(win) * (m + 1)
IsMinOf(m, win) == m \in Range(win) /\ \A v \in Range(win) : m <= v
IsMaxOf(m, win) == m \in Range(win) /\ \A v \in Range(win) : m >= v
RolledStats == Range(StatsOrDefault(returned.stats))

\* C16: after add_rolling_features, for every window w the columns
\* {col}_roll_mean_{w}, _roll_min_{w} and _roll_max_{w} hold at row i the
\* arithmetic mean, the minimum and the maximum of the w values of col at
\* rows i-w+1 .. i, and the missing value in the first w - 1 rows (and where
\* the window holds a missing value).
C16_RollingValues ==
    RollingCall =>
        \A w \in Range(returned.windows) :
            \A p \in Positions(returned.frame) :
                LET win == TrailingWindow(returned.passed, returned.value_col, w, p)
                    full == Complete(returned.passed, returned.value_col, w, p)
                    got(stat) == Cell(returned.frame, RollName(returned.value_col, stat, w), p)
                IN /\ "mean" \in RolledStats =>
                        IF full THEN IsMeanOf(got("mean"), win) ELSE got("mean") = NaN
                   /\ "min" \in RolledStats =>
                        IF full THEN IsMinOf(got("min"), win) ELSE got("min") = NaN
                   /\ "max" \in RolledStats =>
                        IF full THEN IsMaxOf(got("max"), win) ELSE got("max") = NaN
\* The example of the tests: the mean of window 3 at row 2 of
\* [10, 20, 30, 40, 50] is 20, and rows 0 and 1 are missing.
C16_Witness ==
    /\ RollingCall
    /\ returned.windows = <<3>>
    /\ ColumnValues(returned.passed, Col("value")) = <<10, 20, 30, 40, 50>>
    /\ ColumnValues(returned.frame, RollName(Col("value"), "mean", 3)) = <<NaN, NaN, 20, 30, 40>>
    /\ ColumnValues(returned.frame, RollName(Col("value"), "min", 3)) = <<NaN, NaN, 10, 20, 30>>
    /\ ColumnValues(returned.frame, RollName(Col("value"), "max", 3)) = <<NaN, NaN, 30, 40, 50>>

\* C17: a call of add_rolling_features whose stats holds a name outside
\* mean, std, min and max raises, whatever windows is (the empty list
\* included) and wherever the name stands in stats.
C17_UnsupportedStatRaises ==
    (/\ returned.fn = "add_rolling_features"
     /\ \E i \in 1..Len(StatsOrDefault(returned.stats)) :
            StatsOrDefault(returned.stats)[i] \notin SupportedStats)
    => returned.exc # ""

\* C18: add_lag_features leaves the table it was passed as it was (no column
\* added), and returns a table with the same rows in the same order and the
\* values of every column the table had.
C18_LagIsPure ==
    LagCall =>
        /\ table = returned.passed
        /\ Len(returned.frame.rows) = Len(returned.passed.rows)
        /\ \A p \in Positions(returned.passed) :
              /\ returned.frame.rows[p].idx = returned.passed.rows[p].idx
              /\ \A c \in Range(returned.passed.columns) :
                    Cell(returned.frame, c, p) = Cell(returned.passed, c, p)

ResampleCall == returned.fn = "resample_to_month_start" /\ returned.exc = ""
\* One record per year, dated 1 January, the years in order.
IsAnnual(df) ==
    /\ df.rows # <<>>
    /\ \A y \in 1..Len(df.rows) : ObsDate(df, y) = Date(12 * (y - 1) + 1, 1)

\* C19: resampling annual data with how = "ffill" gives, for every year of
\* the data, the last one included, a row for each of its 12 months that
\* carries the year's value.
C19_TwelveMonthsPerYear ==
    (ResampleCall /\ returned.how = "ffill" /\ IsAnnual(returned.passed)) =>
        \A y \in 1..Len(returned.passed.rows) :
            \A k \in 1..12 :
                \E q \in Positions(returned.frame) :
                    returned.frame.rows[q].cells =
                        <<Date(12 * (y - 1) + k, 1), ObsValue(returned.passed, y)>>

\* C20: the output of resample_to_month_start has one row per calendar month
\* from the month of the earliest date of the input to the month of its
\* latest date, in order, each dated the first day of its month.
C20_OneRowPerMonth ==
    ResampleCall =>
        IF returned.passed.rows = <<>> THEN returned.frame.rows = <<>>
        ELSE LET months == {ObsDate(returned.passed, p).month : p \in Positions(returned.passed)}
                 first == CHOOSE m \in months : \A n \in months : m <= n
                 last == CHOOSE m \in months : \A n \in months : m >= n
             IN /\ Len(returned.frame.rows) = last - first + 1
                /\ \A q \in Positions(returned.frame) :
                      ObsDate(returned.frame, q) = Date(first + q - 1, 1)
\* An unsorted series with a month without observation and dates within the
\* month: the mean has a row for each of the three months.
C20_Witness ==
    /\ ResampleCall
    /\ returned.how = "mean"
    /\ Len(returned.passed.rows) = 2
    /\ ObsDate(returned.passed, 1) = Date(3, 15)
    /\ ObsDate(returned.passed, 2) = Date(1, 15)
    /\ [q \in Positions(returned.frame) |-> ObsDate(returned.frame, q)]
          = <<Date(1, 1), Date(2, 1), Date(3, 1)>>
    /\ ObsValue(returned.frame, 2) = NaN

\* A run of build_features that returned.
Built == returned.fn = "build_features" /\ returned.exc = ""
MatrixDates == [i \in 1..Len(features_file.rows) |-> features_file.rows[i][1]]

\* C21: the matrix build_features returns and persists has no missing value
\* in any column of any row, and its dates are unique, ascending and month
\* starts.
C21_MatrixInvariants ==
    Built =>
        /\ \A i \in 1..Len(features_file.rows) :
              /\ Len(features_file.rows[i]) = Len(features_file.columns)
              /\ \A j \in 1..Len(features_file.columns) : features_file.rows[i][j] # NaN
        /\ \A i, j \in 1..Len(MatrixDates) : i < j => MatrixDates[i] < MatrixDates[j]
        /\ \A i \in 1..Len(MatrixDates) :
              \E g \in 1..Len(returned.grid) :
                  returned.grid[g].month = MatrixDates[i] /\ returned.grid[g].day = 1
\* A run that dropped rows with missing values and kept several months.
C21_Witness ==
    /\ Built
    /\ Len(features_file.rows) > 1
    /\ Len(features_file.rows) < Len(returned.merged)
    /\ \E p \in 1..Len(returned.merged) : \E j \in 1..Len(MergedColumns) : returned.merged[p].cells[j] = NaN

\* The dates of the merged frame from its 13th month on.
AfterTwelveMonths ==
    [i \in 1..(IF Len(returned.merged) > 12 THEN Len(returned.merged) - 12 ELSE 0) |->
        returned.merged[i + 12].cells[1]]
\* C22: the rows build_features drops are the earliest 12 months of the
\* merged history, and every later month of the production date grid is
\* retained.
C22_DropsEarliestTwelve == Built => MatrixDates = AfterTwelveMonths

\* A run that reached the loading of the Brent prices (160), which raised.
SourcesBeforeBrentLoad ==
    /\ raw_dir.world.exists /\ raw_dir.world.year_col
    /\ raw_dir.renew.exists /\ raw_dir.renew.year_col
    /\ raw_dir.saudi.exists /\ raw_dir.saudi.year_col
BrentRaised == returned.fn = "build_features" /\ SourcesBeforeBrentLoad /\ ~raw_dir.brent.readable
\* The matrix of the same sources with a price series that covers the grid.
WithRealPrices ==
    build_features([raw_dir EXCEPT !.brent = BrentFile(1, 12 * BuildYears)], NoFile).file
BrentIndex == ColIndex(MergedColumns, Col("brent_price"))
C24_OnlyTotalRows ==
    Built =>
        \A i \in 1..Len(returned.saudi) :
            raw_dir.saudi.rows[returned.saudi[i].src].indicator = "Total"

\* A country of the Gulf Cooperation Council, by name or by ISO code.
IsGcc(country) == Lower(country) \in gcc_countries \/ Upper(country) \in gcc_codes
FromGcc(file, agg) ==
    \A k \in 1..Len(agg) : \A i \in agg[k].srcs : IsGcc(file.rows[i].country)
\* C25: every raw row that contributes to an aggregated world_* or
\* renewables_* column belongs to one of the six GCC countries.
C25_OnlyGccRows ==
    Built => FromGcc(raw_dir.world, returned.world) /\ FromGcc(raw_dir.renew, returned.renew)

\* C26: GET /model/{h}/info returns the metadata of the current model of
\* horizon h whenever one is registered in the configured stage, and answers
\* 404 only when none is.
C26_ModelInfo ==
    response.status # 0 =>
        IF Promoted(response.horizon) # {}
        THEN /\ response.status = 200
             /\ \E i \in Promoted(response.horizon) :
                   response.version = LatestIn(registry[i], MODEL_REGISTRY_STAGE)
        ELSE response.status = NotFoundStatus

\* The positions of a call's combined frame dated n months before row p.
MonthsBack(call, p, n) ==
    {q \in 1..Len(call.combined.rows) :
        DateOf(call.combined, q) = DateOf(call.combined, p) - n}
\* C27: in the rows passed to the model, the column {var}_lag_{k} holds the
\* value var has k months before the row's date, for every requested date
\* (also one that does not directly follow the last history month) and every
\* k of 1, 2, 3, 6, 12.
C27_LagIsMonthsBack ==
    \A k \in Returned :
        \A j \in 1..Len(calls[k].pred_df) :
            \A i \in 1..Len(BuilderLoopCols), l \in 1..Len(Lags) :
                LET call == calls[k]
                    p == call.pred_df[j]
                    back == MonthsBack(call, p, Lags[l])
                IN back # {} =>
                      \E q \in back :
                          Cell(call.combined, LagName(BuilderLoopCols[i], Lags[l]), p)
                              = Cell(call.combined, BuilderLoopCols[i], q)

\* C28: after any sequence of train_all_horizons runs, in which the best
\* model type of a horizon may change, at most one registered model of each
\* horizon has a version in the configured stage, and a Forecaster(h)
\* constructed then loads the model the most recent run promoted.
C28_OnePromotedPerHorizon ==
    returned.fn = "train_all_horizons" =>
        \A h \in Range(Horizons) :
            /\ Cardinality(Promoted(h)) <= 1
            /\ Forecaster(registry, h).returned
            /\ Forecaster(registry, h).model.mtype = returned.results[h]

\* C29: when the signature is unknown, the set of columns the preparer
\* passes to the model equals the set of feature columns training fitted the
\* model on.
C29_TrainedColumnSet ==
    \A k \in 1..Len(calls) :
        (calls[k].invoked /\ ~SignatureKnown) =>
            Range(calls[k].X_cols) = Range(TrainedFeatureCols)

\* C30: when build_features fails (a required source is missing or
\* unreadable, an expected column is absent), the matrix persisted before is
\* left as it was; a run that succeeds replaces the file as a whole by the
\* rows of its own merged frame.
C30_FailureKeepsMatrix ==
    returned.fn = "build_features" =>
        IF returned.exc # ""
        THEN features_file = returned.before
        ELSE /\ features_file.exists
             /\ \A i \in 1..Len(features_file.rows) :
                   \E p \in 1..Len(returned.merged) :
                       \A j \in 1..Len(MergedColumns) :
                           features_file.rows[i][j] = returned.merged[p].cells[j]
C30_Witness ==
    /\ returned.fn = "build_features"
    /\ returned.exc # ""
    /\ returned.before.exists
    /\ Len(returned.before.rows) > 0
    /\ features_file = returned.before
====
